---- MODULE Spec2Model ----
(***************************************************************************)
(* A model of the Redis-backed Blackboard                                  *)
(* (src/orchestrator/infrastructure/blackboard.py) and of the memory:      *)
(* the consolidator (consolidation.py), MemoryLite (memory_lite.py) and    *)
(* the memory server (mcp_memory_server.py).                               *)
(*                                                                         *)
(* Time is a discrete clock `now`, counted in ticks; every time.time() of   *)
(* the code reads it.  A step of an actor is one call to the store         *)
(* together with the local code that follows it up to the next store call  *)
(* or sleep; the clock and the other actors move between steps.            *)
(***************************************************************************)
EXTENDS Integers, Sequences, FiniteSets, TLC

\* ---------------------------------------------------------------- bounds
NumActors == 2          \* actors calling the Blackboard concurrently
MaxTime == 5            \* horizon of the clock where locks are used, in ticks
MaxStamp == 1           \* horizon of the clock where artifacts are written, in ticks
MaxOps == 3             \* lock operations started in all
MaxCalls == 2           \* artifact operations started in all
MaxEvents == 2          \* messages published in all where the watchers are followed
MaxMutations == 4       \* writes and deletes started in all where deletes are followed
MaxPipeOps == 4         \* pipeline operations started in all
MaxPipeTime == 4        \* horizon of the clock where pipeline states are kept, in ticks
MaxCap == 2             \* the largest maxlen the trimming of the stream is followed with
MaxLimit == 3           \* the largest limit get_history is called with
MaxLen == 3             \* the longest key and pattern the filter is applied to
MaxAppends == 3         \* writes and deletes started in all where the stream is trimmed
MaxUpserts == 3         \* node upserts started in all
MaxRelOps == 3          \* relation operations started in all
MaxRelTime == 2         \* horizon of the clock where relations are closed, in ticks
MaxReads == 3           \* node operations started in all where reads are counted
MaxCycles == 2          \* sleep cycles started in all
MaxRecorded == 2        \* episodes recorded in all
MaxClustered == 4      \* episodes in a list that is clustered
MaxWords == 2           \* words of a content that is scored
MaxSets == 4            \* blackboard_set and blackboard_delete calls started in all
MaxUses == 3            \* record_pattern and consolidate calls started in all
MaxUseTime == 2         \* horizon of the clock where patterns are used, in ticks of 7 days

\* ------------------------------------------------------ program constants
InitialWait == 1        \* wait_time = 0.01, the first back-off wait, is one tick
MaxWait == 100          \* min(wait_time, 1.0): the longest wait, in ticks
AuditCap == 10000       \* maxlen=10000
MaxRetries == 3         \* retry_on_failure(max_retries=3)
Retention == 2          \* expire(pipeline_key, 86400): 24 hours, in ticks of 12 hours

Actors == 1..NumActors
Resources == {"r1"}
\* timeout_ms values the actors pass (in ticks)
TtlChoices == {1, 4}
\* blocking_timeout values the actors pass (in ticks)
BlockingTimeouts == {2}

\* The keys (strings, as sequences of characters), values, types, ttl (in
\* ticks; 0: no expiration) the actors pass to write_artifact and
\* delete_artifact, and the pattern the watchers pass to watch.
Keys == {<<"k", "1">>, <<"j">>}
WatchPattern == <<"*">>
\* Python values are a kind and a body: a str, a tuple, and a set, which
\* json.dumps cannot encode.
Values == {[kind |-> "str", body |-> <<"v1">>], [kind |-> "tuple", body |-> <<"v1">>],
           [kind |-> "set", body |-> <<"v1">>]}
\* The errors of the store client; all of them are redis.RedisError.
StoreErrors == {"redis.ConnectionError", "redis.ResponseError"}
ArtifactType == {"plan", "code"}
ArtifactTtls == {0, 1}
Watchers == {"w1", "w2"}
\* The watcher whose consumer reads the key of every event back.
Readers == {"w1"}
\* The pattern of the other watcher: a prefix.
PrefixPattern == <<"k", "*">>
\* The keys written where the artifacts and their readers are followed.
ReadKeys == {<<"k", "1">>}
\* The run ids, step numbers and statuses the actors pass to the pipeline calls.
Runs == {"run1"}
PipeSteps == {1, 2}
PipeStatuses == {"running", "completed"}
\* The data they pass: none, or a dict.
PipeData == {[kind |-> "NoneType", body |-> <<>>], [kind |-> "dict", body |-> <<"d1">>],
             [kind |-> "dict", body |-> <<"d2">>]}

NoActor == 0
NoMarker == [owner |-> NoActor, exp |-> 0]

VARIABLES
    now,          \* the clock
    lockMarker,   \* bb:lock:<resource> -> marker (who set it, when it expires)
    pc,           \* position of each actor
    call,         \* arguments of the actor's current lock call
    startTime,    \* start_time of a blocking acquire_lock
    waitTime,     \* wait_time of a blocking acquire_lock
    wakeAt,       \* end of the current time.sleep
    result,       \* what the actor's last lock call returned or raised
    holdUntil,    \* per actor and resource: end of the actor's own TTL (0: not a holder)
    opsDone,      \* operations started so far
    scoped,       \* the actor is inside Blackboard.lock
    scopeStat,    \* per actor: what its latest Blackboard.lock call did, as counts
    sinceFree,    \* per resource: the conditional puts since the marker was last absent
    artifact,     \* bb:artifact:<key> -> the stored envelope
    artifactExp,  \* bb:artifact:<key> -> its expiration (0: none)
    events,       \* everything published on bb:events, in order
    audit,        \* the stream bb:audit
    commits,      \* the operations whose set or delete the store has applied, in order
    bcall,        \* arguments and locals of the actor's current artifact call
    opLog,        \* every artifact call started: what it was and how it ended
    subscribed,   \* the watchers listening on bb:events
    inbox,        \* per watcher: messages delivered and not yet read
    yielded,      \* per watcher: the event its consumer is reacting to
    observed,     \* per watcher: the latest event together with what read(key) gave
    ended,        \* the watchers whose watch() has raised
    auditCap,     \* the maxlen the audit entries are appended with
    appended,     \* every entry ever appended to bb:audit, in order
    history,      \* what the latest get_history was asked and returned
    match,        \* the latest use of _matches_pattern: key, pattern, result
    pipeline,     \* bb:pipeline:<run> -> the stored hash
    pipelineExp,  \* bb:pipeline:<run> -> its expiration (0: none)
    pcall,        \* per actor: its current pipeline call and what its last one returned
    lastSet,      \* per run: the latest set_pipeline_state that returned
    semantic,     \* table semantic_memory of the consolidator: name -> row
    relations,    \* per table of relations: its rows, in the order of their ids
    entities,     \* table entities: the names
    nodes,        \* table nodes of MemoryLite: id -> row
    episodes,     \* table episodic_memory: the ids of its rows
    consolidated, \* the episodes whose column consolidated is TRUE
    archive,      \* table episodic_memory_archive: the ids of its rows, in order
    reflections,  \* table procedural_memory: the number of its rows
    records,      \* the CONSOLIDATED_EPISODE rows of the server's semantic_memory: their runs
    lite,         \* table blackboard of MemoryLite: key -> row
    mcall,        \* per actor: its current call to the memory and its locals
    cyc,          \* per actor: its current sleep cycle and its locals
    mlog,         \* every call to the memory that returned: what it was and what it gave
    memOps,       \* calls to the memory started so far
    pending,      \* the rows the consolidator's connection has closed and not committed
    patterns,     \* table patterns of MemoryLite: id -> row
    calc          \* the latest use of a function of the consolidator: arguments, result

lockVars == <<lockMarker, pc, call, startTime, waitTime, wakeAt, result,
              holdUntil, opsDone, scoped, scopeStat, sinceFree>>
bbVars == <<artifact, artifactExp, events, audit, commits, bcall, opLog,
            subscribed, inbox, yielded, observed>>
extVars == <<ended, auditCap, appended, history, match, pipeline, pipelineExp, pcall,
             lastSet>>
\* extVars without the record of the appended entries
otherExt == <<ended, auditCap, history, match, pipeline, pipelineExp, pcall, lastSet>>
otherExtButEnded == <<auditCap, history, match, pipeline, pipelineExp, pcall, lastSet>>
memVars == <<semantic, relations, entities, nodes, episodes, consolidated, archive,
             reflections, records, lite, mcall, cyc, mlog, memOps>>
calcVars == <<pending, patterns, calc>>
vars == <<now, lockVars, bbVars, extVars, memVars, calcVars>>

Min(a, b) == IF a <= b THEN a ELSE b

NoCall == [op |-> "none", resource |-> "r1", ttl |-> 0, timeout |-> 0]
\* granted: conditional puts that succeeded; first: the result of the first one
NoPuts == [granted |-> 0, first |-> "none"]
NoStat == [entered |-> 0, acquired |-> 0, failed |-> 0, bodyRuns |-> 0,
           bodyExits |-> 0, releases |-> 0]

InitLock ==
    /\ lockMarker = [r \in Resources |-> NoMarker]
    /\ pc = [a \in Actors |-> "idle"]
    /\ call = [a \in Actors |-> NoCall]
    /\ startTime = [a \in Actors |-> 0]
    /\ waitTime = [a \in Actors |-> 0]
    /\ wakeAt = [a \in Actors |-> 0]
    /\ result = [a \in Actors |-> "none"]
    /\ holdUntil = [a \in Actors |-> [r \in Resources |-> 0]]
    /\ opsDone = 0
    /\ scoped = [a \in Actors |-> FALSE]
    /\ scopeStat = [a \in Actors |-> NoStat]
    /\ sinceFree = [r \in Resources |-> NoPuts]

NoOp == 0
PyNone == [kind |-> "NoneType", body |-> <<>>]
JsonNull == [kind |-> "null", body |-> <<>>]
NoArtifact == [type |-> "none", data |-> JsonNull, timestamp |-> 0, version |-> 0, op |-> NoOp]
NoEvent == [key |-> <<>>, action |-> "none", timestamp |-> 0, type |-> "none", op |-> NoOp]
NoBCall == [op |-> "none", key |-> <<>>, value |-> PyNone, type |-> "none", ttl |-> 0,
            notify |-> FALSE, stamp |-> 0, id |-> NoOp, attempt |-> 0]

InitBB ==
    /\ artifact = [k \in Keys |-> NoArtifact]
    /\ artifactExp = [k \in Keys |-> 0]
    /\ events = <<>>
    /\ audit = <<>>
    /\ commits = <<>>
    /\ bcall = [a \in Actors |-> NoBCall]
    /\ opLog = <<>>
    /\ subscribed = {}
    /\ inbox = [w \in Watchers |-> <<>>]
    /\ yielded = [w \in Watchers |-> NoEvent]
    /\ observed = [w \in Watchers |-> [event |-> NoEvent, artifact |-> NoArtifact]]

\* str(x) of a number and int(s) or float(s) of such a string.
ToStr(x) == [str |-> x]
FromStr(s) == s.str

\* hgetall of a key that does not exist is empty; get_pipeline_state then returns None.
\* A field that a hash, or a key that a dict, does not have.
NoField == [kind |-> "absent", body |-> <<>>]
NoState == [step |-> ToStr(0), status |-> "none", updated_at |-> ToStr(0), data |-> NoField]
NoResult == [step |-> 0, status |-> "none", updated_at |-> 0, data |-> NoField]
NoSet == [step |-> 0, status |-> "none", data |-> PyNone, at |-> 0]
NoPCall == [pc |-> "idle", op |-> "none", run |-> "none", step |-> 0, status |-> "none",
            data |-> PyNone, stamp |-> 0, id |-> NoOp, got |-> NoResult, cleared |-> FALSE]
NoMatch == [key |-> <<>>, pattern |-> <<>>, result |-> FALSE, applied |-> FALSE]
NoHistory == [limit |-> 0, entries |-> <<>>]

InitExt ==
    /\ ended = {}
    /\ appended = <<>>
    /\ history = NoHistory
    /\ match = NoMatch
    /\ pipeline = [r \in Runs |-> NoState]
    /\ pipelineExp = [r \in Runs |-> 0]
    /\ pcall = [a \in Actors |-> NoPCall]
    /\ lastSet = [r \in Runs |-> NoSet]

\* ------------------------------------------------------ the memory: data
\* The names, source lists (episode ids) and importances (in tenths) the
\* upserts of semantic nodes are called with.
NodeNames == {"n"}
SourceLists == {<<1>>, <<2>>}
Importances == {3, 8}
\* The entities and relation types of the relations, and the tables that hold
\* relations: semantic_relations of the consolidator, edges of MemoryLite,
\* relations of the server.
Entities == {"a", "b", "c"}
RelTypes == {"uses"}
Tables == {"semantic_relations", "edges", "relations"}
\* The triple the relation operations are called with.
Triples == {[source |-> "a", type |-> "uses", target |-> "b"]}
NoTriple == [source |-> "none", type |-> "none", target |-> "none"]
\* NULL in a column that holds a time.
NoTime == -1
\* The ids of MemoryLite's nodes and the keys of its blackboard.
NodeIds == {"id1", "id2"}
LiteKeys == {"k"}
\* The episodes that can be recorded: 1, 2 and 3 belong to run "R", 4 and 5 to
\* run "S".  1 reports an error; 1 and 2 are similar (cosine 0.85), 3 is
\* similar to neither (cosine 0.2); the embedding of 5 has a dimension of its
\* own.
EpisodeIds == 1..5
PipelineRuns == {"R", "S"}
RunOf(e) == IF e >= 4 THEN "S" ELSE "R"

NoNode == [present |-> FALSE, sources |-> JsonNull, importance |-> 0, description |-> 0]
NoLiteNode == [present |-> FALSE, importance |-> 0, access_count |-> 0, last_accessed |-> 0]
NoEntry == [present |-> FALSE, version |-> 0]
\* The ids of MemoryLite's patterns; success_rate is kept as the fraction
\* rate_num / rate_den, utility_score in thousandths.
PatternIds == {"p"}
NoPattern == [present |-> FALSE, times_used |-> 0, rate_num |-> 0, rate_den |-> 1,
              utility |-> 0, last_used |-> 0]
NoMCall == [pc |-> "idle", op |-> "none", table |-> "none", name |-> "none",
            sources |-> <<>>, importance |-> 0, description |-> 0, triple |-> NoTriple,
            found |-> FALSE, row |-> NoNode, rid |-> 0, version |-> 0, stamp |-> 0,
            key |-> "none", success |-> FALSE, recency |-> 0]
\* The counters of a ConsolidationReport.
NoCounts == [nodes_created |-> 0, nodes_updated |-> 0, relations_created |-> 0,
             episodes_processed |-> 0]
NoCycle == [step |-> "none", impl |-> "none", run |-> "none", ids |-> <<>>,
            clusters |-> <<>>, ci |-> 0, fi |-> 0, failed |-> {}, effects |-> 0,
            after |-> FALSE, report |-> NoCounts, did |-> NoCounts]

\* self.db.commit(): the changes the connection has made are kept, none is
\* left to roll back.
Commit == {}

\* self.db.rollback(): the rows the connection has closed without a commit
\* are active again.
Rollback ==
    [t \in DOMAIN relations |->
        [i \in 1..Len(relations[t]) |->
            IF [table |-> t, rid |-> i] \in pending
            THEN [relations[t][i] EXCEPT !.valid_to = NoTime]
            ELSE relations[t][i]]]

InitGraph ==
    /\ relations = [t \in Tables |-> <<>>]
    /\ entities = {}

InitStore ==
    /\ semantic = [n \in NodeNames |-> NoNode]
    /\ nodes = [i \in NodeIds |-> NoLiteNode]
    /\ episodes = {}
    /\ consolidated = {}
    /\ archive = <<>>
    /\ reflections = 0
    /\ records = <<>>
    /\ lite = [k \in LiteKeys |-> NoEntry]
    /\ mcall = [a \in Actors |-> NoMCall]
    /\ cyc = [a \in Actors |-> NoCycle]
    /\ mlog = <<>>
    /\ memOps = 0

NoCalc == [fn |-> "none"]

InitCalc ==
    /\ pending = {}
    /\ patterns = [i \in PatternIds |-> NoPattern]
    /\ calc = NoCalc

InitMem == InitGraph /\ InitStore /\ InitCalc

Init ==
    /\ now = 0
    /\ InitLock
    /\ InitBB
    /\ InitExt
    /\ auditCap = AuditCap
    /\ InitMem

\* ------------------------------------------------------------ the store
\* Mutant of SetNXSucceeds: the put without nx=True, which always succeeds.
SetWithoutNX(r) == TRUE

\* SET key '1' NX PX ttl succeeds exactly when the key is absent.
SetNXSucceeds(r) == lockMarker[r] = NoMarker

\* Mutant of SetNX: the put on a key that is there leaves the value and sets
\* the expiration anew.
SetNXRefreshes(r, a, ttl) ==
    IF SetNXSucceeds(r)
    THEN [lockMarker EXCEPT ![r] = [owner |-> a, exp |-> now + ttl]]
    ELSE [lockMarker EXCEPT ![r].exp = now + ttl]

\* The store after SET key '1' NX PX ttl by actor a.
SetNX(r, a, ttl) ==
    IF SetNXSucceeds(r)
    THEN [lockMarker EXCEPT ![r] = [owner |-> a, exp |-> now + ttl]]
    ELSE lockMarker

\* The record of the conditional puts on r, one more having been made.
Record(r) ==
    [sinceFree EXCEPT ![r] =
        [granted |-> @.granted + (IF SetNXSucceeds(r) THEN 1 ELSE 0),
         first |-> IF @.first # "none" THEN @.first
                   ELSE IF SetNXSucceeds(r) THEN "true" ELSE "false"]]

\* Keys whose expiration has been reached at time t are gone.
Expire(markers, t) ==
    [r \in Resources |->
        IF markers[r] # NoMarker /\ markers[r].exp <= t THEN NoMarker ELSE markers[r]]

\* --------------------------------------------------------- acquire_lock
\* Where an acquire_lock call that ended with `outcome` leaves the actor:
\* inside Blackboard.lock a true result runs the body.
AfterAcquire(inScope, outcome) ==
    IF inScope /\ outcome = "true" THEN "body" ELSE "idle"

\* What the caller of acquire_lock sees: Blackboard.lock turns a false
\* result into LockAcquisitionError and lets LockTimeout through.
Outcome(inScope, outcome) ==
    IF inScope /\ outcome = "false" THEN "LockAcquisitionError" ELSE outcome

\* What Blackboard.lock counts when its acquire_lock ended with `outcome`.
ScopeAfterAcquire(stat, a, inScope, outcome) ==
    IF ~inScope THEN stat
    ELSE IF outcome = "true"
         THEN [stat EXCEPT ![a].acquired = @ + 1, ![a].bodyRuns = @ + 1]
         ELSE [stat EXCEPT ![a].failed = @ + 1]

\* The end of an acquire_lock call of actor a on r with `outcome`.
Finish(a, op, r, ttl, outcome, inScope, stat) ==
    /\ result' = [result EXCEPT ![a] = Outcome(inScope, outcome)]
    /\ pc' = [pc EXCEPT ![a] = AfterAcquire(inScope, outcome)]
    /\ scopeStat' = ScopeAfterAcquire(stat, a, inScope, outcome)
    /\ scoped' = [scoped EXCEPT ![a] = inScope /\ outcome = "true"]
    /\ holdUntil' = IF outcome = "true"
                    THEN [holdUntil EXCEPT ![a][r] = now + ttl]
                    ELSE holdUntil
    /\ call' = [call EXCEPT ![a] = [op |-> op, resource |-> r, ttl |-> 0, timeout |-> 0]]
    /\ startTime' = [startTime EXCEPT ![a] = 0]
    /\ waitTime' = [waitTime EXCEPT ![a] = 0]
    /\ wakeAt' = [wakeAt EXCEPT ![a] = 0]

\* acquire_lock(r, ttl, blocking=False): a single conditional put.
TryOnce(a, op, r, ttl, inScope, stat) ==
    /\ lockMarker' = SetNX(r, a, ttl)
    /\ sinceFree' = Record(r)
    /\ Finish(a, op, r, ttl, IF SetNXSucceeds(r) THEN "true" ELSE "false", inScope, stat)

\* acquire_lock(r, ttl, blocking=True): start_time and wait_time are set, the loop begins.
BeginPolling(a, op, r, ttl, timeout) ==
    /\ now + 2 * timeout <= MaxTime
    /\ call' = [call EXCEPT ![a] = [op |-> op, resource |-> r, ttl |-> ttl, timeout |-> timeout]]
    /\ result' = [result EXCEPT ![a] = "none"]
    /\ startTime' = [startTime EXCEPT ![a] = now]
    /\ waitTime' = [waitTime EXCEPT ![a] = InitialWait]
    /\ pc' = [pc EXCEPT ![a] = "poll"]

AcquireNonBlocking(a, r, ttl) ==
    /\ pc[a] = "idle"
    /\ opsDone < MaxOps
    /\ opsDone' = opsDone + 1
    /\ TryOnce(a, "acquire_lock", r, ttl, FALSE, [scopeStat EXCEPT ![a] = NoStat])
    /\ UNCHANGED <<now, bbVars, extVars, memVars, calcVars>>

AcquireBlocking(a, r, ttl, timeout) ==
    /\ pc[a] = "idle"
    /\ opsDone < MaxOps
    /\ opsDone' = opsDone + 1
    /\ BeginPolling(a, "acquire_lock", r, ttl, timeout)
    /\ scopeStat' = [scopeStat EXCEPT ![a] = NoStat]
    /\ UNCHANGED <<now, bbVars, extVars, memVars, calcVars, lockMarker, wakeAt, holdUntil, scoped, sinceFree>>

\* Mutant of TimedOut: the check made against a zero budget, so the first
\* failed attempt raises.
TimedOutAtOnce(a) == now - startTime[a] >= 0

\* Mutant of TimedOut: the check left out, so the loop never gives up.
TimedOutNever(a) == FALSE

\* The blocking_timeout check of the polling loop.
TimedOut(a) == now - startTime[a] >= call[a].timeout

\* One iteration of the polling loop: the conditional put, then return, raise or sleep.
PollAttempt(a) ==
    /\ pc[a] = "poll"
    /\ lockMarker' = SetNX(call[a].resource, a, call[a].ttl)
    /\ sinceFree' = Record(call[a].resource)
    /\ IF SetNXSucceeds(call[a].resource)
       THEN Finish(a, call[a].op, call[a].resource, call[a].ttl, "true", scoped[a], scopeStat)
       ELSE IF TimedOut(a)
       THEN Finish(a, call[a].op, call[a].resource, call[a].ttl, "LockTimeout", scoped[a],
                   scopeStat)
       ELSE /\ pc' = [pc EXCEPT ![a] = "sleep"]
            /\ wakeAt' = [wakeAt EXCEPT ![a] = now + Min(waitTime[a], MaxWait)]
            /\ waitTime' = [waitTime EXCEPT ![a] = @ * 2]
            /\ UNCHANGED <<result, holdUntil, scoped, scopeStat, call, startTime>>
    /\ UNCHANGED <<now, bbVars, extVars, memVars, calcVars, opsDone>>

\* time.sleep returns once the wait has passed.
Wake(a) ==
    /\ pc[a] = "sleep"
    /\ now >= wakeAt[a]
    /\ pc' = [pc EXCEPT ![a] = "poll"]
    /\ UNCHANGED <<now, bbVars, extVars, memVars, calcVars, lockMarker, call, startTime, waitTime, wakeAt, result,
                   holdUntil, opsDone, scoped, scopeStat, sinceFree>>

\* --------------------------------------------------------- release_lock
\* DEL key: unconditional, whoever set the marker.
Del(r) == [lockMarker EXCEPT ![r] = NoMarker]

ReleaseLock(a, r) ==
    /\ pc[a] = "idle"
    /\ opsDone < MaxOps
    /\ opsDone' = opsDone + 1
    /\ lockMarker' = Del(r)
    /\ sinceFree' = [sinceFree EXCEPT ![r] = NoPuts]
    /\ result' = [result EXCEPT ![a] = IF lockMarker[r] # NoMarker THEN "true" ELSE "false"]
    /\ holdUntil' = [holdUntil EXCEPT ![a][r] = 0]
    /\ call' = [call EXCEPT ![a] = [op |-> "release_lock", resource |-> r, ttl |-> 0,
                                     timeout |-> 0]]
    /\ scopeStat' = [scopeStat EXCEPT ![a] = NoStat]
    /\ UNCHANGED <<now, bbVars, extVars, memVars, calcVars, pc, startTime, waitTime, wakeAt, scoped>>

\* ------------------------------------------------------ Blackboard.lock
\* with bb.lock(r, ttl, blocking, timeout): the acquire_lock call on entry.
LockEnter(a, r, ttl, blocking, timeout) ==
    /\ pc[a] = "idle"
    /\ opsDone < MaxOps
    /\ opsDone' = opsDone + 1
    /\ LET entered == [scopeStat EXCEPT ![a] = [NoStat EXCEPT !.entered = 1]]
       IN IF blocking
          THEN /\ BeginPolling(a, "lock", r, ttl, timeout)
               /\ scoped' = [scoped EXCEPT ![a] = TRUE]
               /\ scopeStat' = entered
               /\ UNCHANGED <<lockMarker, wakeAt, holdUntil, sinceFree>>
          ELSE TryOnce(a, "lock", r, ttl, TRUE, entered)
    /\ UNCHANGED <<now, bbVars, extVars, memVars, calcVars>>

\* Mutant of LockExit: the release after a plain yield, without try/finally,
\* which a raising body skips.
LockExitNoFinally(a, raised) ==
    /\ pc[a] = "body"
    /\ lockMarker' = IF raised THEN lockMarker ELSE Del(call[a].resource)
    /\ sinceFree' = IF raised THEN sinceFree
                    ELSE [sinceFree EXCEPT ![call[a].resource] = NoPuts]
    /\ holdUntil' = IF raised THEN holdUntil
                    ELSE [holdUntil EXCEPT ![a][call[a].resource] = 0]
    /\ scopeStat' = [scopeStat EXCEPT ![a].bodyExits = @ + 1,
                                      ![a].releases = @ + (IF raised THEN 0 ELSE 1)]
    /\ scoped' = [scoped EXCEPT ![a] = FALSE]
    /\ pc' = [pc EXCEPT ![a] = "idle"]
    /\ result' = [result EXCEPT ![a] = IF raised THEN "BodyError" ELSE "none"]
    /\ UNCHANGED <<now, bbVars, extVars, memVars, calcVars, call, startTime, waitTime, wakeAt, opsDone>>

\* The body of the with statement ends, normally or by raising, and the
\* finally clause calls release_lock.
LockExit(a, raised) ==
    /\ pc[a] = "body"
    /\ lockMarker' = Del(call[a].resource)
    /\ sinceFree' = [sinceFree EXCEPT ![call[a].resource] = NoPuts]
    /\ holdUntil' = [holdUntil EXCEPT ![a][call[a].resource] = 0]
    /\ scopeStat' = [scopeStat EXCEPT ![a].bodyExits = @ + 1, ![a].releases = @ + 1]
    /\ scoped' = [scoped EXCEPT ![a] = FALSE]
    /\ pc' = [pc EXCEPT ![a] = "idle"]
    /\ result' = [result EXCEPT ![a] = IF raised THEN "BodyError" ELSE "none"]
    /\ UNCHANGED <<now, bbVars, extVars, memVars, calcVars, call, startTime, waitTime, wakeAt, opsDone>>

\* ------------------------------------------------------------ the clock
\* Artifacts whose expiration has been reached at time t are gone.
ExpireArtifacts(t) ==
    [k \in Keys |-> IF artifactExp[k] # 0 /\ artifactExp[k] <= t THEN NoArtifact
                    ELSE artifact[k]]

\* Pipeline states whose expiration has been reached at time t are gone.
ExpirePipeline(t) ==
    [r \in Runs |-> IF pipelineExp[r] # 0 /\ pipelineExp[r] <= t THEN NoState
                    ELSE pipeline[r]]

\* Time passes, up to the horizon; the store drops the keys whose expiration
\* is reached.
Tick(horizon) ==
    /\ now < horizon
    /\ now' = now + 1
    /\ lockMarker' = Expire(lockMarker, now + 1)
    /\ sinceFree' = [r \in Resources |->
                        IF Expire(lockMarker, now + 1)[r] = NoMarker /\ lockMarker[r] # NoMarker
                        THEN NoPuts ELSE sinceFree[r]]
    /\ holdUntil' = [a \in Actors |-> [r \in Resources |->
                        IF holdUntil[a][r] <= now + 1 THEN 0 ELSE holdUntil[a][r]]]
    /\ artifact' = ExpireArtifacts(now + 1)
    /\ artifactExp' = [k \in Keys |-> IF artifactExp[k] <= now + 1 THEN 0 ELSE artifactExp[k]]
    /\ UNCHANGED <<pc, call, startTime, waitTime, wakeAt, result,
                   opsDone, scoped, scopeStat>>
    /\ UNCHANGED <<events, audit, commits, bcall, opLog, subscribed, inbox, yielded,
                   observed>>
    /\ pipeline' = ExpirePipeline(now + 1)
    /\ pipelineExp' = [r \in Runs |-> IF pipelineExp[r] <= now + 1 THEN 0 ELSE pipelineExp[r]]
    /\ UNCHANGED <<memVars, calcVars, ended, auditCap, appended, history, match, pcall, lastSet>>

LockTick == Tick(MaxTime)

LockNext ==
    \/ LockTick
    \/ \E a \in Actors, r \in Resources, ttl \in TtlChoices : AcquireNonBlocking(a, r, ttl)
    \/ \E a \in Actors, r \in Resources, ttl \in TtlChoices, t \in BlockingTimeouts :
          AcquireBlocking(a, r, ttl, t)
    \/ \E a \in Actors : PollAttempt(a)
    \/ \E a \in Actors : Wake(a)
    \/ \E a \in Actors, r \in Resources : ReleaseLock(a, r)
    \/ \E a \in Actors, r \in Resources, ttl \in TtlChoices, b \in BOOLEAN,
          t \in BlockingTimeouts : LockEnter(a, r, ttl, b, t)
    \/ \E a \in Actors, raised \in BOOLEAN : LockExit(a, raised)

LockSpec == Init /\ [][LockNext]_vars

\* ======================================================== the artifacts
\* Where key k stands in sequence q of operation ids (0: nowhere).
Pos(q, id) ==
    IF \E i \in 1..Len(q) : q[i] = id
    THEN CHOOSE i \in 1..Len(q) : q[i] = id
    ELSE 0

\* How many entries of sequence q belong to operation id.
CountOf(q, id) == Cardinality({i \in 1..Len(q) : q[i].op = id})

\* Mutant of XAdd: the trimming drops the newest entries instead of the oldest.
XAddKeepOldest(stream, entry, cap) ==
    LET q == Append(stream, entry)
    IN {SubSeq(q, 1, n) : n \in Min(Len(q), cap)..Len(q)}

\* XADD ... MAXLEN ~ cap (redis.xadd(..., maxlen=cap) trims by size hint): the
\* entry is appended and oldest entries beyond the cap may be dropped, whole
\* nodes at a time, so the stream keeps cap entries or more.  The streams
\* the call can leave.
XAdd(stream, entry, cap) ==
    LET q == Append(stream, entry)
    IN {SubSeq(q, Len(q) - n + 1, Len(q)) : n \in Min(Len(q), cap)..Len(q)}

\* Mutant of Deliver: one queue at a time, a message being handed only to the
\* watchers that have taken all their earlier ones.
DeliverWhenIdle(boxes, ev) ==
    [w \in Watchers |-> IF w \in subscribed /\ boxes[w] = <<>> THEN Append(boxes[w], ev)
                        ELSE boxes[w]]

\* PUBLISH: the message reaches every watcher that is subscribed at this moment.
Deliver(boxes, ev) ==
    [w \in Watchers |-> IF w \in subscribed THEN Append(boxes[w], ev) ELSE boxes[w]]

\* json.dumps(v): the JSON text of a value, as a kind and a body.  A tuple is
\* written as an array, like a list; a set raises TypeError.
Encodable(v) == v.kind \in {"str", "list", "tuple", "NoneType"}

JsonDumps(v) ==
    IF v.kind \in {"list", "tuple"} THEN [kind |-> "array", body |-> v.body]
    ELSE IF v.kind = "str" THEN [kind |-> "string", body |-> v.body]
    ELSE IF v.kind = "dict" THEN [kind |-> "object", body |-> v.body]
    ELSE JsonNull

\* json.loads(j): an array is read as a list.
JsonLoads(j) ==
    IF j.kind = "array" THEN [kind |-> "list", body |-> j.body]
    ELSE IF j.kind = "string" THEN [kind |-> "str", body |-> j.body]
    ELSE IF j.kind = "object" THEN [kind |-> "dict", body |-> j.body]
    ELSE PyNone

\* The except clauses of a method: TypeError of json.dumps and every
\* redis.RedisError leave the method as BlackboardError.
InnerExcept(exc) ==
    IF exc = "TypeError" \/ exc \in StoreErrors THEN "BlackboardError" ELSE exc

\* The except clause of the wrapper retry_on_failure puts around a method.
Retried(exc) == exc \in {"redis.ConnectionError", "redis.TimeoutError"}

\* time.sleep(delay * (attempt + 1)), in units of delay.
RetryDelay(attempt) == attempt + 1

\* Mutant of Wrapper: `except Exception`, which retries every failure.
WrapperRetryAll(exc, attempt) ==
    IF attempt < MaxRetries - 1 THEN "retry" ELSE "ConnectionError"

\* What the wrapper does with exception exc leaving the method on attempt
\* number `attempt` (from 0): another attempt, or the exception of the caller.
Wrapper(exc, attempt) ==
    IF Retried(exc)
    THEN (IF attempt < MaxRetries - 1 THEN "retry" ELSE "ConnectionError")
    ELSE exc

\* The call of actor a has ended with `status`: ok, false, or the exception
\* raised to the caller, `cause` being the error it comes from.
Return(a, status, cause) ==
    /\ opLog' = [opLog EXCEPT ![bcall[a].id].status = status,
                              ![bcall[a].id].cause = cause,
                              ![bcall[a].id].attempts = bcall[a].attempt + 1]
    /\ bcall' = [bcall EXCEPT ![a] = NoBCall]
    /\ pc' = [pc EXCEPT ![a] = "idle"]

\* Mutant of NextStep: the event published before the envelope is stored.
NextStepPublishFirst(step, ttl, notify) ==
    IF step = "begin" THEN (IF notify THEN "publish" ELSE "set")
    ELSE IF step = "publish" THEN "set"
    ELSE IF step = "set" /\ ttl > 0 THEN "expire"
    ELSE "audit"

\* The local code between two store calls of write_artifact: which store call
\* comes after the one at `step`.
NextStep(step, ttl, notify) ==
    IF step = "begin" THEN "set"
    ELSE IF step = "set" /\ ttl > 0 THEN "expire"
    ELSE IF step \in {"set", "expire"} /\ notify THEN "publish"
    ELSE "audit"

\* The actor goes on to the store call after `step`; the payload of a publish
\* or an audit entry is built now, with time.time() as its timestamp.
Proceed(a, step) ==
    /\ pc' = [pc EXCEPT ![a] = NextStep(step, bcall[a].ttl, bcall[a].notify)]
    /\ bcall' = [bcall EXCEPT ![a].stamp = now]
    /\ UNCHANGED opLog

\* write_artifact(k, v, type, ttl, notify): the envelope is built, with
\* time.time() as its timestamp, and encoded.
WriteBegin(a, k, v, type, ttl, notify) ==
    /\ pc[a] = "idle"
    /\ opsDone' = opsDone + 1
    /\ IF Encodable(v)
       THEN /\ bcall' = [bcall EXCEPT ![a] =
                            [op |-> "write", key |-> k, value |-> v, type |-> type,
                             ttl |-> ttl, notify |-> notify, stamp |-> now,
                             id |-> opsDone + 1, attempt |-> 0]]
            /\ opLog' = Append(opLog, [op |-> "write", key |-> k, notify |-> notify,
                                       ttl |-> ttl, status |-> "running",
                                       cause |-> "none", attempts |-> 0])
            /\ pc' = [pc EXCEPT ![a] = NextStep("begin", ttl, notify)]
       ELSE /\ opLog' = Append(opLog, [op |-> "write", key |-> k, notify |-> notify,
                                       ttl |-> ttl,
                                       status |-> Wrapper(InnerExcept("TypeError"), 0),
                                       cause |-> "TypeError", attempts |-> 1])
            /\ UNCHANGED <<bcall, pc>>
    /\ UNCHANGED <<now, artifact, artifactExp, events, audit, commits, subscribed, inbox,
                   yielded, observed>>
    /\ UNCHANGED <<lockMarker, call, startTime, waitTime, wakeAt, result, holdUntil,
                   scoped, scopeStat, sinceFree, extVars, memVars, calcVars>>

\* redis.set(key, artifact_json): the envelope replaces what was stored, and
\* with it any expiration of the key.
WriteSet(a) ==
    /\ pc[a] = "set"
    /\ artifact' = [artifact EXCEPT ![bcall[a].key] =
                       [type |-> bcall[a].type, data |-> JsonDumps(bcall[a].value),
                        timestamp |-> bcall[a].stamp, version |-> 1, op |-> bcall[a].id]]
    /\ artifactExp' = [artifactExp EXCEPT ![bcall[a].key] = 0]
    /\ commits' = Append(commits, bcall[a].id)
    /\ Proceed(a, "set")
    /\ UNCHANGED <<now, events, audit, subscribed, inbox, yielded, observed, opsDone>>
    /\ UNCHANGED <<lockMarker, call, startTime, waitTime, wakeAt, result, holdUntil,
                   scoped, scopeStat, sinceFree, extVars, memVars, calcVars>>

\* redis.expire(key, ttl): sets the expiration of the key if the key exists.
WriteExpire(a) ==
    /\ pc[a] = "expire"
    /\ artifactExp' = IF artifact[bcall[a].key] # NoArtifact
                      THEN [artifactExp EXCEPT ![bcall[a].key] = now + bcall[a].ttl]
                      ELSE artifactExp
    /\ Proceed(a, "expire")
    /\ UNCHANGED <<now, artifact, events, audit, commits, subscribed, inbox, yielded,
                   observed, opsDone>>
    /\ UNCHANGED <<lockMarker, call, startTime, waitTime, wakeAt, result, holdUntil,
                   scoped, scopeStat, sinceFree, extVars, memVars, calcVars>>

\* The event a write or a delete publishes.
Event(c) ==
    [key |-> c.key, action |-> c.op, timestamp |-> c.stamp,
     type |-> IF c.op = "write" THEN c.type ELSE "none", op |-> c.id]

\* redis.publish(EVENT_CHANNEL, event) of write_artifact.
WritePublish(a) ==
    /\ pc[a] = "publish"
    /\ bcall[a].op = "write"
    /\ events' = Append(events, Event(bcall[a]))
    /\ inbox' = Deliver(inbox, Event(bcall[a]))
    /\ Proceed(a, "publish")
    /\ UNCHANGED <<now, artifact, artifactExp, audit, commits, subscribed, yielded,
                   observed, opsDone>>
    /\ UNCHANGED <<lockMarker, call, startTime, waitTime, wakeAt, result, holdUntil,
                   scoped, scopeStat, sinceFree, extVars, memVars, calcVars>>

\* The audit entry a write or a delete appends.
AuditEntry(c) ==
    [action |-> c.op, key |-> c.key, type |-> IF c.op = "write" THEN c.type ELSE "none",
     timestamp |-> ToStr(c.stamp), op |-> c.id]

\* Mutant of WriteAudit: the xadd moved under `if notify:`.
WriteAuditIfNotify(a) ==
    /\ pc[a] = "audit"
    /\ bcall[a].op = "write"
    /\ audit' \in IF bcall[a].notify THEN XAdd(audit, AuditEntry(bcall[a]), auditCap)
                  ELSE {audit}
    /\ appended' = IF bcall[a].notify THEN Append(appended, AuditEntry(bcall[a]))
                   ELSE appended
    /\ Return(a, "ok", "none")
    /\ UNCHANGED <<now, artifact, artifactExp, events, commits, subscribed, inbox, yielded,
                   observed, opsDone>>
    /\ UNCHANGED <<lockMarker, call, startTime, waitTime, wakeAt, result, holdUntil,
                   scoped, scopeStat, sinceFree, otherExt, memVars, calcVars>>

\* redis.xadd(AUDIT_STREAM, ..., maxlen=10000) of write_artifact; return True.
WriteAudit(a) ==
    /\ pc[a] = "audit"
    /\ bcall[a].op = "write"
    /\ audit' \in XAdd(audit, AuditEntry(bcall[a]), auditCap)
    /\ appended' = Append(appended, AuditEntry(bcall[a]))
    /\ Return(a, "ok", "none")
    /\ UNCHANGED <<now, artifact, artifactExp, events, commits, subscribed, inbox, yielded,
                   observed, opsDone>>
    /\ UNCHANGED <<lockMarker, call, startTime, waitTime, wakeAt, result, holdUntil,
                   scoped, scopeStat, sinceFree, otherExt, memVars, calcVars>>

\* delete_artifact(k): redis.delete(key); a key that was present goes on to
\* publish, an absent one returns False.
Delete(a, k) ==
    /\ pc[a] = "idle"
    /\ opsDone' = opsDone + 1
    /\ artifact' = [artifact EXCEPT ![k] = NoArtifact]
    /\ artifactExp' = [artifactExp EXCEPT ![k] = 0]
    /\ IF artifact[k] # NoArtifact
       THEN /\ commits' = Append(commits, opsDone + 1)
            /\ opLog' = Append(opLog, [op |-> "delete", key |-> k, notify |-> TRUE,
                                       ttl |-> 0, status |-> "running",
                                       cause |-> "none", attempts |-> 0])
            /\ bcall' = [bcall EXCEPT ![a] = [NoBCall EXCEPT !.op = "delete", !.key = k,
                                                             !.stamp = now,
                                                             !.id = opsDone + 1]]
            /\ pc' = [pc EXCEPT ![a] = "publish"]
       ELSE /\ opLog' = Append(opLog, [op |-> "delete", key |-> k, notify |-> TRUE,
                                       ttl |-> 0, status |-> "false",
                                       cause |-> "none", attempts |-> 1])
            /\ UNCHANGED <<commits, bcall, pc>>
    /\ UNCHANGED <<now, events, audit, subscribed, inbox, yielded, observed>>
    /\ UNCHANGED <<lockMarker, call, startTime, waitTime, wakeAt, result, holdUntil,
                   scoped, scopeStat, sinceFree, extVars, memVars, calcVars>>

\* redis.publish(EVENT_CHANNEL, event) of delete_artifact.
DeletePublish(a) ==
    /\ pc[a] = "publish"
    /\ bcall[a].op = "delete"
    /\ events' = Append(events, Event(bcall[a]))
    /\ inbox' = Deliver(inbox, Event(bcall[a]))
    /\ pc' = [pc EXCEPT ![a] = "audit"]
    /\ bcall' = [bcall EXCEPT ![a].stamp = now]
    /\ UNCHANGED <<now, artifact, artifactExp, audit, commits, subscribed, yielded,
                   observed, opsDone, opLog>>
    /\ UNCHANGED <<lockMarker, call, startTime, waitTime, wakeAt, result, holdUntil,
                   scoped, scopeStat, sinceFree, extVars, memVars, calcVars>>

\* Mutant of DeleteAudit: delete_artifact returning without the xadd.
DeleteNoAudit(a) ==
    /\ pc[a] = "audit"
    /\ bcall[a].op = "delete"
    /\ Return(a, "ok", "none")
    /\ UNCHANGED <<now, artifact, artifactExp, events, audit, commits, subscribed, inbox,
                   yielded, observed, opsDone, lockMarker, call, startTime, waitTime,
                   wakeAt, result, holdUntil, scoped, scopeStat, sinceFree, extVars, memVars, calcVars>>

\* redis.xadd(AUDIT_STREAM, ..., maxlen=10000) of delete_artifact; return True.
DeleteAudit(a) ==
    /\ pc[a] = "audit"
    /\ bcall[a].op = "delete"
    /\ audit' \in XAdd(audit, AuditEntry(bcall[a]), auditCap)
    /\ appended' = Append(appended, AuditEntry(bcall[a]))
    /\ Return(a, "ok", "none")
    /\ UNCHANGED <<now, artifact, artifactExp, events, commits, subscribed, inbox, yielded,
                   observed, opsDone>>
    /\ UNCHANGED <<lockMarker, call, startTime, waitTime, wakeAt, result, holdUntil,
                   scoped, scopeStat, sinceFree, otherExt, memVars, calcVars>>

\* The wrapper runs the method of actor a again, from its first line: a write
\* builds its envelope anew, a delete issues redis.delete again.  (The sleep
\* before the attempt takes no step of its own.)
Restart(a) ==
    IF bcall[a].op = "write"
    THEN /\ bcall' = [bcall EXCEPT ![a].attempt = @ + 1, ![a].stamp = now]
         /\ pc' = [pc EXCEPT ![a] = "set"]
         /\ UNCHANGED <<artifact, artifactExp, commits, opLog>>
    ELSE /\ artifact' = [artifact EXCEPT ![bcall[a].key] = NoArtifact]
         /\ artifactExp' = [artifactExp EXCEPT ![bcall[a].key] = 0]
         /\ IF artifact[bcall[a].key] # NoArtifact
            THEN /\ bcall' = [bcall EXCEPT ![a].attempt = @ + 1, ![a].stamp = now]
                 /\ pc' = [pc EXCEPT ![a] = "publish"]
                 /\ commits' = Append(commits, bcall[a].id)
                 /\ UNCHANGED opLog
            ELSE /\ opLog' = [opLog EXCEPT ![bcall[a].id].status = "false",
                                           ![bcall[a].id].attempts = bcall[a].attempt + 2]
                 /\ bcall' = [bcall EXCEPT ![a] = NoBCall]
                 /\ pc' = [pc EXCEPT ![a] = "idle"]
                 /\ UNCHANGED commits

\* A store call of write_artifact or delete_artifact raises exc, a
\* redis.RedisError: the method's except clause turns it into BlackboardError,
\* which the wrapper retries or lets through to the caller.
StoreError(a, exc) ==
    /\ pc[a] \in {"set", "expire", "publish", "audit"}
    /\ IF Wrapper(InnerExcept(exc), bcall[a].attempt) = "retry"
       THEN Restart(a)
       ELSE /\ Return(a, Wrapper(InnerExcept(exc), bcall[a].attempt), exc)
            /\ UNCHANGED <<artifact, artifactExp, commits>>
    /\ UNCHANGED <<now, events, audit, subscribed, inbox, yielded, observed, opsDone>>
    /\ UNCHANGED <<lockMarker, call, startTime, waitTime, wakeAt, result, holdUntil,
                   scoped, scopeStat, sinceFree, extVars, memVars, calcVars>>

\* ---------------------------------------------------------------- watch
\* pattern.split('*')[0]: the characters of the pattern before its first '*'.
PrefixOf(pattern) ==
    LET stars == {i \in 1..Len(pattern) : pattern[i] = "*"}
        first == CHOOSE i \in stars : \A j \in stars : i <= j
    IN SubSeq(pattern, 1, first - 1)

\* key.startswith(prefix)
StartsWith(key, prefix) ==
    Len(key) >= Len(prefix) /\ SubSeq(key, 1, Len(prefix)) = prefix

\* Mutant of MatchesPattern: the prefix taken as the pattern without its last
\* character, as if the '*' could only stand at the end.
MatchesTrailingStar(key, pattern) ==
    IF pattern = <<"*">> THEN TRUE
    ELSE IF \E i \in 1..Len(pattern) : pattern[i] = "*"
    THEN StartsWith(key, SubSeq(pattern, 1, Len(pattern) - 1))
    ELSE key = pattern

\* _matches_pattern(key, pattern)
MatchesPattern(key, pattern) ==
    IF pattern = <<"*">> THEN TRUE
    ELSE IF \E i \in 1..Len(pattern) : pattern[i] = "*"
    THEN StartsWith(key, PrefixOf(pattern))
    ELSE key = pattern

\* The pattern each watcher passes to watch().
PatternOf(w) == IF w \in Readers THEN WatchPattern ELSE PrefixPattern

\* A message on bb:events that is no event: json.loads or
\* BlackboardEvent(**event_data) raises on it.
Garbage == [NoEvent EXCEPT !.action = "undecodable"]
Decodable(msg) == msg.action # "undecodable"

\* watch(): pubsub.subscribe(EVENT_CHANNEL).
Subscribe(w) ==
    /\ w \notin subscribed
    /\ w \notin ended
    /\ subscribed' = subscribed \cup {w}
    /\ UNCHANGED <<now, lockVars, extVars, memVars, calcVars, artifact, artifactExp, events, audit, commits, bcall,
                   opLog, inbox, yielded, observed>>

\* The next message of pubsub.listen(): decoded, filtered and yielded to the consumer.
WatchYield(w) ==
    /\ w \in subscribed
    /\ yielded[w] = NoEvent
    /\ inbox[w] # <<>>
    /\ inbox' = [inbox EXCEPT ![w] = Tail(@)]
    /\ yielded' = [yielded EXCEPT ![w] =
                      IF /\ Decodable(Head(inbox[w]))
                         /\ MatchesPattern(Head(inbox[w]).key, PatternOf(w))
                      THEN Head(inbox[w])
                      ELSE NoEvent]
    /\ UNCHANGED <<now, lockVars, extVars, memVars, calcVars, artifact, artifactExp, events, audit, commits, bcall,
                   opLog, subscribed, observed>>

\* Mutant of ReadArtifact: the stored text returned without json.loads.
ReadArtifactRaw(k) == artifact[k]

\* read_artifact(key): the envelope stored under the key, or None.
ReadArtifact(k) ==
    IF artifact[k] = NoArtifact THEN NoArtifact
    ELSE [artifact[k] EXCEPT !.data = JsonLoads(@)]

\* The consumer reacts to the event it was given by reading the event's key,
\* as in the example of watch().
ConsumerRead(w) ==
    /\ yielded[w] # NoEvent
    /\ observed' = [observed EXCEPT ![w] =
                       [event |-> yielded[w], artifact |-> ReadArtifact(yielded[w].key)]]
    /\ yielded' = [yielded EXCEPT ![w] = NoEvent]
    /\ UNCHANGED <<now, lockVars, extVars, memVars, calcVars, artifact, artifactExp, events, audit, commits, bcall,
                   opLog, subscribed, inbox>>

\* Another client of the store publishes on bb:events a message that is no event.
ForeignPublish ==
    /\ opsDone' = opsDone + 1
    /\ inbox' = Deliver(inbox, Garbage)
    /\ UNCHANGED <<now, extVars, memVars, calcVars, artifact, artifactExp, events, audit, commits, bcall,
                   opLog, subscribed, yielded, observed>>
    /\ UNCHANGED <<lockMarker, pc, call, startTime, waitTime, wakeAt, result, holdUntil,
                   scoped, scopeStat, sinceFree>>

\* The connection of the subscription is lost: pubsub.listen() raises
\* redis.ConnectionError, watch() raises BlackboardError and closes the
\* subscription in its finally clause; the generator is finished.
TransportLost(w) ==
    /\ w \in subscribed
    /\ yielded[w] = NoEvent
    /\ subscribed' = subscribed \ {w}
    /\ inbox' = [inbox EXCEPT ![w] = <<>>]
    /\ ended' = ended \cup {w}
    /\ UNCHANGED <<now, lockVars, otherExtButEnded, memVars, calcVars, appended, artifact, artifactExp, events,
                   audit, commits, bcall, opLog, yielded, observed>>

ArtifactTick == Tick(MaxStamp)

ArtifactNext ==
    \/ ArtifactTick
    \/ \E a \in Actors, k \in ReadKeys, v \in Values, type \in ArtifactType,
          ttl \in ArtifactTtls, notify \in BOOLEAN :
             opsDone < MaxCalls /\ WriteBegin(a, k, v, type, ttl, notify)
    \/ \E a \in Actors : WriteSet(a)
    \/ \E a \in Actors : WriteExpire(a)
    \/ \E a \in Actors : WritePublish(a)
    \/ \E a \in Actors : WriteAudit(a)
    \/ \E a \in Actors, k \in ReadKeys : opsDone < MaxCalls /\ Delete(a, k)
    \/ \E a \in Actors : DeletePublish(a)
    \/ \E a \in Actors : DeleteAudit(a)
    \/ \E a \in Actors, exc \in StoreErrors : StoreError(a, exc)
    \/ \E w \in Readers : Subscribe(w)
    \/ \E w \in Readers : WatchYield(w)
    \/ \E w \in Readers : ConsumerRead(w)

ArtifactSpec == Init /\ [][ArtifactNext]_vars

\* The value and type written where only the events matter.
PlainValue == [kind |-> "str", body |-> <<"v1">>]

\* ---------------------------------------------------------- the filter
\* The characters and the strings the filter is applied to.
Alphabet == {"k", "j", "*"}
Strings == UNION {[1..n -> Alphabet] : n \in 0..MaxLen}

\* self._matches_pattern(key, pattern), called by a watcher.
ApplyFilter(key, pattern) ==
    /\ match' = [key |-> key, pattern |-> pattern,
                 result |-> MatchesPattern(key, pattern), applied |-> TRUE]
    /\ UNCHANGED <<now, lockVars, bbVars, memVars, calcVars, ended, auditCap, appended, history, pipeline,
                   pipelineExp, pcall, lastSet>>

\* One application of the filter in every behaviour.
PatternNext ==
    \E key \in Strings, pattern \in Strings : ~match.applied /\ ApplyFilter(key, pattern)

PatternSpec == Init /\ [][PatternNext]_vars

\* --------------------------------------------------------- the history
\* redis.xrevrange(AUDIT_STREAM, count=limit): the newest entries first, at
\* most `count` of them.
XRevRange(stream, count) ==
    [i \in 1..Min(count, Len(stream)) |-> stream[Len(stream) - i + 1]]

\* The dict get_history makes of a stream entry.
HistoryEntry(e) ==
    [id |-> e.op, action |-> e.action, key |-> e.key, type |-> e.type,
     timestamp |-> FromStr(e.timestamp)]

\* Mutant of GetHistory: xrange in place of xrevrange, the oldest entries first.
GetHistoryOldestFirst(limit) ==
    /\ history' = [limit |-> limit,
                   entries |-> [i \in 1..Min(limit, Len(audit)) |-> HistoryEntry(audit[i])]]
    /\ UNCHANGED <<now, lockVars, bbVars, memVars, calcVars, ended, auditCap, appended, match, pipeline,
                   pipelineExp, pcall, lastSet>>

\* get_history(limit)
GetHistory(limit) ==
    /\ history' = [limit |-> limit,
                   entries |-> [i \in 1..Min(limit, Len(audit)) |->
                                   HistoryEntry(XRevRange(audit, limit)[i])]]
    /\ UNCHANGED <<now, lockVars, bbVars, memVars, calcVars, ended, auditCap, appended, match, pipeline,
                   pipelineExp, pcall, lastSet>>

\* The stream is trimmed as the program trims it, but with a small maxlen in
\* place of 10000, so that the trimming happens.
HistoryInit ==
    /\ now = 0
    /\ InitLock
    /\ InitBB
    /\ InitExt
    /\ auditCap \in 1..MaxCap
    /\ InitMem

HistoryNext ==
    \/ \E a \in Actors, k \in ReadKeys :
          opsDone < MaxAppends /\ WriteBegin(a, k, PlainValue, "plan", 0, FALSE)
    \/ \E a \in Actors : WriteSet(a)
    \/ \E a \in Actors : WriteAudit(a)
    \/ \E a \in Actors, k \in ReadKeys : opsDone < MaxAppends /\ Delete(a, k)
    \/ \E a \in Actors : DeletePublish(a)
    \/ \E a \in Actors : DeleteAudit(a)
    \/ \E limit \in 1..MaxLimit : GetHistory(limit)

HistorySpec == HistoryInit /\ [][HistoryNext]_vars

\* -------------------------------------------------- the pipeline state
\* set_pipeline_state(run, step, status, data): the state is built, with
\* str(time.time()) as updated_at.
SetBegin(a, r, step, status, data) ==
    /\ pcall[a].pc = "idle"
    /\ opsDone' = opsDone + 1
    /\ pcall' = [pcall EXCEPT ![a] = [NoPCall EXCEPT !.pc = "hset", !.op = "set", !.run = r,
                                                     !.step = step, !.status = status,
                                                     !.data = data,
                                                     !.stamp = now, !.id = opsDone + 1]]
    /\ UNCHANGED <<now, bbVars, memVars, calcVars, ended, auditCap, appended, history, match, pipeline,
                   pipelineExp, lastSet>>
    /\ UNCHANGED <<lockMarker, pc, call, startTime, waitTime, wakeAt, result, holdUntil,
                   scoped, scopeStat, sinceFree>>

\* `if data:` of a value: None and the empty dict are false.
Truthy(v) == v.kind # "NoneType" /\ v.body # <<>>

\* redis.hset(pipeline_key, mapping=state): the fields of the mapping are
\* written, `data` among them only where `if data:` put it there; the other
\* fields of the hash, and an expiration the key has, stay as they are.
SetHset(a) ==
    /\ pcall[a].pc = "hset"
    /\ pipeline' = [pipeline EXCEPT ![pcall[a].run] =
                       [step |-> ToStr(pcall[a].step), status |-> pcall[a].status,
                        updated_at |-> ToStr(pcall[a].stamp),
                        data |-> IF Truthy(pcall[a].data) THEN JsonDumps(pcall[a].data)
                                 ELSE pipeline[pcall[a].run].data]]
    /\ pcall' = [pcall EXCEPT ![a].pc = "expire"]
    /\ UNCHANGED <<now, lockVars, bbVars, memVars, calcVars, ended, auditCap, appended, history, match,
                   pipelineExp, lastSet>>

\* redis.expire(pipeline_key, 86400), which does nothing to a key that does
\* not exist; set_pipeline_state returns.
SetExpire(a) ==
    /\ pcall[a].pc = "expire"
    /\ pipelineExp' = IF pipeline[pcall[a].run] # NoState
                      THEN [pipelineExp EXCEPT ![pcall[a].run] = now + Retention]
                      ELSE pipelineExp
    /\ pcall' = [pcall EXCEPT ![a].pc = "idle"]
    /\ lastSet' = [lastSet EXCEPT ![pcall[a].run] =
                      [step |-> pcall[a].step, status |-> pcall[a].status,
                       data |-> pcall[a].data, at |-> now]]
    /\ UNCHANGED <<now, lockVars, bbVars, memVars, calcVars, ended, auditCap, appended, history, match,
                   pipeline>>

\* What get_pipeline_state makes of redis.hgetall(pipeline_key): None of an
\* empty hash, else the step as an int, the status, updated_at as a float,
\* and json.loads of the data field where the hash has one.
HGetAll(r) ==
    IF pipeline[r] = NoState THEN NoResult
    ELSE [step |-> FromStr(pipeline[r].step), status |-> pipeline[r].status,
          updated_at |-> FromStr(pipeline[r].updated_at),
          data |-> IF pipeline[r].data = NoField THEN NoField
                   ELSE JsonLoads(pipeline[r].data)]

\* get_pipeline_state(run)
PipeGet(a, r) ==
    /\ pcall[a].pc = "idle"
    /\ opsDone' = opsDone + 1
    /\ pcall' = [pcall EXCEPT ![a] = [NoPCall EXCEPT !.op = "get", !.run = r,
                                                     !.id = opsDone + 1,
                                                     !.got = HGetAll(r)]]
    /\ UNCHANGED <<now, bbVars, memVars, calcVars, ended, auditCap, appended, history, match, pipeline,
                   pipelineExp, lastSet>>
    /\ UNCHANGED <<lockMarker, pc, call, startTime, waitTime, wakeAt, result, holdUntil,
                   scoped, scopeStat, sinceFree>>

\* clear_pipeline_state(run): redis.delete(pipeline_key), true if a key was removed.
PipeClear(a, r) ==
    /\ pcall[a].pc = "idle"
    /\ opsDone' = opsDone + 1
    /\ pipeline' = [pipeline EXCEPT ![r] = NoState]
    /\ pipelineExp' = [pipelineExp EXCEPT ![r] = 0]
    /\ pcall' = [pcall EXCEPT ![a] = [NoPCall EXCEPT !.op = "clear", !.run = r,
                                                     !.id = opsDone + 1,
                                                     !.cleared = (pipeline[r] # NoState)]]
    /\ lastSet' = [lastSet EXCEPT ![r] = NoSet]
    /\ UNCHANGED <<now, bbVars, memVars, calcVars, ended, auditCap, appended, history, match>>
    /\ UNCHANGED <<lockMarker, pc, call, startTime, waitTime, wakeAt, result, holdUntil,
                   scoped, scopeStat, sinceFree>>

PipeTick == Tick(MaxPipeTime)

\* The orchestrator, which makes the pipeline calls one after the other.
Orchestrator == {1}

PipelineNext ==
    \/ PipeTick
    \/ \E a \in Orchestrator, r \in Runs, step \in PipeSteps, status \in PipeStatuses,
          data \in PipeData :
          opsDone < MaxPipeOps /\ SetBegin(a, r, step, status, data)
    \/ \E a \in Orchestrator : SetHset(a)
    \/ \E a \in Orchestrator : SetExpire(a)
    \/ \E a \in Orchestrator, r \in Runs : opsDone < MaxPipeOps /\ PipeGet(a, r)
    \/ \E a \in Orchestrator, r \in Runs : opsDone < MaxPipeOps /\ PipeClear(a, r)

PipelineSpec == Init /\ [][PipelineNext]_vars

\* -------------------------------------------------- writes and deletes
DeleteNext ==
    \/ \E a \in Actors, k \in ReadKeys, notify \in BOOLEAN :
          opsDone < MaxMutations /\ WriteBegin(a, k, PlainValue, "plan", 0, notify)
    \/ \E a \in Actors : WriteSet(a)
    \/ \E a \in Actors : WritePublish(a)
    \/ \E a \in Actors : WriteAudit(a)
    \/ \E a \in Actors, k \in ReadKeys : opsDone < MaxMutations /\ Delete(a, k)
    \/ \E a \in Actors : DeletePublish(a)
    \/ \E a \in Actors : DeleteAudit(a)

DeleteSpec == Init /\ [][DeleteNext]_vars

\* ------------------------------------------------------- the watchers
WatchNext ==
    \/ \E a \in Actors, k \in Keys :
          opsDone < MaxEvents /\ WriteBegin(a, k, PlainValue, "plan", 0, TRUE)
    \/ \E a \in Actors : WriteSet(a)
    \/ \E a \in Actors : WritePublish(a)
    \/ \E a \in Actors : WriteAudit(a)
    \/ \E a \in Actors, k \in Keys : opsDone < MaxEvents /\ Delete(a, k)
    \/ \E a \in Actors : DeletePublish(a)
    \/ \E a \in Actors : DeleteAudit(a)
    \/ opsDone < MaxEvents /\ ForeignPublish
    \/ \E w \in Watchers : Subscribe(w)
    \/ \E w \in Watchers : WatchYield(w)
    \/ \E w \in Watchers : ConsumerRead(w)

WatchSpec == Init /\ [][WatchNext]_vars

\* The watcher with the prefix pattern and its consumer keep running; nothing
\* is assumed of the other watcher, whose consumer may never come back.
WatchFairness ==
    \A w \in Watchers \ Readers : WF_vars(WatchYield(w)) /\ WF_vars(ConsumerRead(w))

FairWatchSpec == WatchSpec /\ WatchFairness

\* The same, with subscriptions that can lose their connection.
LossyWatchNext ==
    \/ WatchNext
    \/ \E w \in Watchers : TransportLost(w)

LossyWatchSpec == Init /\ [][LossyWatchNext]_vars

\* The actors keep running and time keeps passing: a polling loop makes its
\* next attempt, a sleep ends, the clock advances.  Starting a call is up to
\* the actor and is not forced.
LockFairness ==
    /\ WF_vars(LockTick)
    /\ \A a \in Actors : WF_vars(PollAttempt(a)) /\ WF_vars(Wake(a))

FairLockSpec == LockSpec /\ LockFairness

\* ---------------------------------------------- the memory: semantic nodes
Range(q) == {q[i] : i \in 1..Len(q)}
Max(a, b) == IF a >= b THEN a ELSE b

\* list(set(...)) of numbers: every element once; the order is taken ascending.
RECURSIVE ListOf(_)
ListOf(S) ==
    IF S = {} THEN <<>>
    ELSE LET m == CHOOSE x \in S : \A y \in S : x <= y
         IN <<m>> \o ListOf(S \ {m})

PyList(q) == [kind |-> "list", body |-> q]
\* isinstance(x, str): a JSON text as a column of type TEXT gives it back.
IsStr(x) == x.kind \in {"array", "string", "null"}

\* merged_sources: the conditional expression binds weaker than +, so that
\* node.sources is added only where the column is not a str.
MergedSources(existing, sources) ==
    LET picked == IF IsStr(existing) THEN JsonLoads(existing)
                  ELSE PyList(existing.body \o sources)
    IN ListOf(Range(picked.body))

\* The entry of mlog for the call c of actor a that returns ret; wrote: its
\* statements changed a table.
Logged(a, c, ret, wrote) ==
    [wrote |-> wrote, op |-> c.op, actor |-> a, table |-> c.table, name |-> c.name,
     sources |-> c.sources, importance |-> c.importance, triple |-> c.triple,
     stamp |-> c.stamp, found |-> c.found, rid |-> c.rid, key |-> c.key,
     version |-> c.version, run |-> "none", after |-> FALSE, failed |-> {},
     effects |-> 0, ids |-> <<>>, depth |-> 0, got |-> {}, report |-> NoCounts,
     did |-> NoCounts, success |-> c.success, ret |-> ret]
Done(a, ret, wrote) == Logged(a, mcall[a], ret, wrote)

\* What a sleep cycle keeps of a step of its own: one more change of the
\* tables where the step wrote, a failed step where it did not.
Noted(c, wrote, step) ==
    IF c.step = "none" THEN c
    ELSE IF wrote THEN [c EXCEPT !.effects = @ + 1]
    ELSE [c EXCEPT !.failed = @ \cup {step}]

\* The counters of consolidate: `counter` goes up by n after a step of the
\* cycle c; with it is kept by how many rows the step has changed its table.
Counted(c, counter, n, rows) ==
    IF c.step = "none" THEN c
    ELSE [c EXCEPT !.report[counter] = @ + n, !.did[counter] = @ + rows]

\* The relation _extract_insights gives for a cluster, and the call of
\* _upsert_relation with it, up to its SELECT; now = datetime.now().
ExtractedRelation == [source |-> "a", type |-> "uses", target |-> "b"]
RelationCall(triple) ==
    [NoMCall EXCEPT !.pc = "rel_select", !.op = "upsert_relation",
                    !.table = "semantic_relations", !.triple = triple, !.stamp = now]

\* consolidate after _upsert_semantic_node has returned: the relations of the
\* cluster are upserted next.  Outside a sleep cycle the call just returns.
AfterNode(a) == IF cyc[a].step = "none" THEN NoMCall ELSE RelationCall(ExtractedRelation)

\* _upsert_semantic_node(node), called directly.
UpsertNode(a, name, sources, importance) ==
    /\ mcall[a].pc = "idle"
    /\ cyc[a].step = "none"
    /\ memOps' = memOps + 1
    /\ mcall' = [mcall EXCEPT ![a] =
                    [NoMCall EXCEPT !.pc = "node_select", !.op = "upsert_node",
                                    !.name = name, !.sources = sources,
                                    !.importance = importance, !.description = memOps + 1]]
    /\ UNCHANGED <<now, lockVars, bbVars, extVars, calcVars, semantic, relations, entities, nodes,
                   episodes, consolidated, archive, reflections, records, lite, cyc, mlog>>

\* SELECT node_id, sources FROM semantic_memory WHERE name = ?
NodeSelect(a) ==
    /\ mcall[a].pc = "node_select"
    /\ mcall' = [mcall EXCEPT ![a].pc = "node_write",
                              ![a].found = semantic[mcall[a].name].present,
                              ![a].row = semantic[mcall[a].name]]
    /\ UNCHANGED <<now, lockVars, bbVars, extVars, calcVars, semantic, relations, entities, nodes,
                   episodes, consolidated, archive, reflections, records, lite, cyc, mlog,
                   memOps>>

\* The UPDATE of an existing node or the INSERT of a new one, the commit and
\* the return.  The INSERT of a name that is there by now violates UNIQUE:
\* the except clause returns False.
NodeWrite(a) ==
    LET c == mcall[a]
        row == semantic[c.name]
        inserted == ~c.found /\ ~row.present
    IN
    /\ c.pc = "node_write"
    /\ semantic' =
         IF c.found
         THEN [semantic EXCEPT ![c.name] =
                 [row EXCEPT !.description = c.description,
                             !.importance = Max(row.importance, c.importance),
                             !.sources = JsonDumps(PyList(MergedSources(c.row.sources,
                                                                        c.sources)))]]
         ELSE IF inserted
         THEN [semantic EXCEPT ![c.name] =
                 [present |-> TRUE, sources |-> JsonDumps(PyList(c.sources)),
                  importance |-> c.importance, description |-> c.description]]
         ELSE semantic
    /\ mlog' = Append(mlog, Done(a, IF inserted THEN "true" ELSE "false",
                                  c.found \/ inserted))
    /\ pending' = IF c.found \/ inserted THEN Commit ELSE pending
    /\ mcall' = [mcall EXCEPT ![a] = AfterNode(a)]
    /\ cyc' = [cyc EXCEPT ![a] =
                  Counted(Noted(@, c.found \/ inserted, "node"),
                          IF inserted THEN "nodes_created" ELSE "nodes_updated", 1,
                          IF c.found \/ inserted THEN 1 ELSE 0)]
    /\ UNCHANGED <<now, lockVars, bbVars, extVars, patterns, calc, relations, entities, nodes, episodes,
                   consolidated, archive, reflections, records, lite, memOps>>

\* A statement of _upsert_semantic_node raises: the except clause logs the
\* error and returns False.
NodeFail(a) ==
    /\ mcall[a].pc \in {"node_select", "node_write"}
    /\ mlog' = Append(mlog, Done(a, "false", FALSE))
    /\ mcall' = [mcall EXCEPT ![a] = AfterNode(a)]
    /\ cyc' = [cyc EXCEPT ![a] = Counted(Noted(@, FALSE, "node"), "nodes_updated", 1, 0)]
    /\ UNCHANGED <<now, lockVars, bbVars, extVars, calcVars, semantic, relations, entities, nodes,
                   episodes, consolidated, archive, reflections, records, lite, memOps>>

NodeNext ==
    \/ \E a \in Actors, n \in NodeNames, q \in SourceLists, i \in Importances :
          memOps < MaxUpserts /\ UpsertNode(a, n, q, i)
    \/ \E a \in Actors : NodeSelect(a) \/ NodeWrite(a) \/ NodeFail(a)

NodeSpec == Init /\ [][NodeNext]_vars

\* -------------------------------------------------- the memory: episodes
\* What the code looks at in the content of an episode: the indicators of
\* high and of low importance it contains, its length, and whether one of the
\* indicators of a failure is in it; and its embedding: the dimension, and the
\* direction as a group (cosine 0.85 within a group, 0.2 across).
Content(e) ==
    IF e = 1 THEN [high |-> 2, low |-> 0, length |-> 19, failure |-> TRUE]
    ELSE IF e = 3 THEN [high |-> 0, low |-> 1, length |-> 13, failure |-> FALSE]
    ELSE [high |-> 0, low |-> 0, length |-> 60, failure |-> FALSE]
Dim(e) == IF e = 5 THEN 3 ELSE 2
Group(e) == IF e = 3 THEN "g2" ELSE "g1"

\* The configuration of the consolidator, similarities in hundredths and
\* importances in tenths.
ClusteringThreshold == 75
MinClusterSize == 2
MaxClusterSize == 10
ImportanceThresholdHigh == 7

\* _cosine_similarity(a, b); vectors of different dimensions raise ValueError.
DimensionsMatch(e, f) == Dim(e) = Dim(f)
CosineSimilarity(e, f) == IF Group(e) = Group(f) THEN 85 ELSE 20

\* _calculate_importance(content), in tenths.
CalculateImportance(c) ==
    LET base == IF c.high > 0 THEN 7 + Min(c.high, 3)
                ELSE IF c.low > 0 THEN 3 - Min(c.low, 3)
                ELSE 5
        adjusted == IF c.length < 50 \/ c.length > 500 THEN Min(base + 1, 10) ELSE base
    IN Max(0, Min(10, adjusted))

\* _is_failure_episode(episode)
IsFailureEpisode(e) == Content(e).failure

\* _cluster_episodes(episodes): the seeds in order; a seed takes the episodes
\* not yet clustered that are similar to it, up to max_size; a cluster smaller
\* than min_size is kept only where its seed is important.
\* The inner loop over the candidates from position j on: an unclustered
\* candidate similar to the seed joins the cluster; the loop ends at an
\* unclustered candidate that finds the cluster full.
RECURSIVE Grown(_, _, _, _, _)
Grown(cfg, ids, j, cluster, clustered) ==
    IF j > Len(ids) THEN cluster
    ELSE IF ids[j] \in clustered \cup Range(cluster)
    THEN Grown(cfg, ids, j + 1, cluster, clustered)
    ELSE IF Len(cluster) >= cfg.max_cluster_size THEN cluster
    ELSE IF CosineSimilarity(cluster[1], ids[j]) >= cfg.clustering_threshold
    THEN Grown(cfg, ids, j + 1, Append(cluster, ids[j]), clustered)
    ELSE Grown(cfg, ids, j + 1, cluster, clustered)

RECURSIVE ClustersFrom(_, _, _, _, _)
ClustersFrom(cfg, ids, i, clustered, clusters) ==
    IF i > Len(ids) THEN clusters
    ELSE IF ids[i] \in clustered THEN ClustersFrom(cfg, ids, i + 1, clustered, clusters)
    ELSE LET seed == ids[i]
             cluster == Grown(cfg, ids, 1, <<seed>>, clustered)
             kept == \/ Len(cluster) >= cfg.min_cluster_size
                     \/ CalculateImportance(Content(seed)) >= cfg.importance_threshold_high
         IN ClustersFrom(cfg, ids, i + 1, clustered \cup Range(cluster),
                         IF kept THEN Append(clusters, cluster) ELSE clusters)

\* The configuration: the defaults, and the overrides of the constructor.
DefaultConfig ==
    [clustering_threshold |-> ClusteringThreshold, min_cluster_size |-> MinClusterSize,
     max_cluster_size |-> MaxClusterSize, importance_threshold_high |-> ImportanceThresholdHigh]

\* Mutant of ClusterWith: the candidates are taken whatever the size of the
\* cluster.
ClusterWithoutCap(cfg, ids) ==
    ClustersFrom([cfg EXCEPT !.max_cluster_size = Len(ids) + 1], ids, 1, {}, <<>>)
\* _cluster_episodes(episodes) under the configuration cfg.
ClusterWith(cfg, ids) == ClustersFrom(cfg, ids, 1, {}, <<>>)
ClusterEpisodes(ids) == ClusterWith(DefaultConfig, ids)

\* The clustering raises where a seed is compared with an episode whose
\* embedding has another dimension.
ClusteringRaises(ids) ==
    \E i, j \in 1..Len(ids) : i # j /\ ~DimensionsMatch(ids[i], ids[j])

\* The failure episodes of a cycle, in order.
Failures(ids) == SelectSeq(ids, IsFailureEpisode)

\* consolidate after the clusters: the reflections on the failure episodes,
\* and then the archive.
AfterClusters(c) ==
    [c EXCEPT !.step = IF Failures(c.ids) # <<>> THEN "reflect" ELSE "archive", !.fi = 1]

\* consolidate after a cluster: the next cluster, if there is one.
AfterCluster(c) ==
    IF c.ci < Len(c.clusters) THEN [c EXCEPT !.step = "extract", !.ci = @ + 1]
    ELSE AfterClusters(c)

\* consolidate after _upsert_relation has returned.
AfterRelation(c) == IF c.step = "none" THEN c ELSE AfterCluster(c)

\* ----------------------------------------------- the memory: relations
Row(triple, from) ==
    [source |-> triple.source, type |-> triple.type, target |-> triple.target,
     valid_from |-> from, valid_to |-> NoTime]
TripleOf(row) == [source |-> row.source, type |-> row.type, target |-> row.target]

\* The ids of the active rows of a triple in table t: valid_to IS NULL.
ActiveIds(t, triple) ==
    {i \in 1..Len(relations[t]) : /\ TripleOf(relations[t][i]) = triple
                                  /\ relations[t][i].valid_to = NoTime}

\* UPDATE ... SET valid_to = stamp on the rows ids of table t.
Closed(t, ids, stamp) ==
    [i \in 1..Len(relations[t]) |->
        IF i \in ids THEN [relations[t][i] EXCEPT !.valid_to = stamp] ELSE relations[t][i]]

\* The call c of one statement, made and returned in one step.
Call(op, table, triple) ==
    [NoMCall EXCEPT !.op = op, !.table = table, !.triple = triple, !.stamp = now]

\* _upsert_relation(relation), called directly.
UpsertRelation(a, triple) ==
    /\ mcall[a].pc = "idle"
    /\ cyc[a].step = "none"
    /\ memOps' = memOps + 1
    /\ mcall' = [mcall EXCEPT ![a] = RelationCall(triple)]
    /\ UNCHANGED <<now, lockVars, bbVars, extVars, calcVars, semantic, relations, entities, nodes,
                   episodes, consolidated, archive, reflections, records, lite, cyc, mlog>>

\* SELECT relation_id ... AND valid_to IS NULL, fetchone(): one of the active
\* rows of the triple, or None.
RelSelect(a) ==
    LET c == mcall[a]
        active == ActiveIds(c.table, c.triple)
    IN
    /\ c.pc = "rel_select"
    /\ \E rid \in (IF active = {} THEN {0} ELSE active) :
          mcall' = [mcall EXCEPT ![a].pc = "rel_write", ![a].found = (rid # 0),
                                 ![a].rid = rid]
    /\ UNCHANGED <<now, lockVars, bbVars, extVars, calcVars, semantic, relations, entities, nodes,
                   episodes, consolidated, archive, reflections, records, lite, cyc, mlog,
                   memOps>>

\* UPDATE ... SET valid_to = now WHERE relation_id = ?, for the row the SELECT
\* gave, the INSERT of the new row, the commit and the return.
RelWrite(a) ==
    LET c == mcall[a]
        closed == Closed(c.table, IF c.found THEN {c.rid} ELSE {}, c.stamp)
    IN
    /\ c.pc = "rel_write"
    /\ relations' = [relations EXCEPT ![c.table] = Append(closed, Row(c.triple, c.stamp))]
    /\ pending' = Commit
    /\ mlog' = Append(mlog, Done(a, "true", TRUE))
    /\ mcall' = [mcall EXCEPT ![a] = NoMCall]
    /\ cyc' = [cyc EXCEPT ![a] = AfterRelation(Counted(Noted(@, TRUE, "relation"),
                                                       "relations_created", 1, 1))]
    /\ UNCHANGED <<now, lockVars, bbVars, extVars, patterns, calc, semantic, entities, nodes, episodes,
                   consolidated, archive, reflections, records, lite, memOps>>

\* A statement of _upsert_relation raises: the except clause logs the error
\* and returns False, without a rollback.  Where it is the INSERT that
\* raised, the UPDATE before it has been applied (updated).
RelFail(a, updated) ==
    LET c == mcall[a]
    IN
    /\ c.pc \in {"rel_select", "rel_write"}
    /\ updated => c.pc = "rel_write" /\ c.found
    /\ relations' = IF updated
                    THEN [relations EXCEPT ![c.table] = Closed(c.table, {c.rid}, c.stamp)]
                    ELSE relations
    /\ pending' = IF updated
                  THEN pending \cup {[table |-> c.table, rid |-> c.rid]}
                  ELSE pending
    /\ mlog' = Append(mlog, Done(a, "false", updated))
    /\ mcall' = [mcall EXCEPT ![a] = NoMCall]
    /\ cyc' = [cyc EXCEPT ![a] = AfterRelation(Counted(Noted(@, FALSE, "relation"),
                                                       "relations_created", 1, 0))]
    /\ UNCHANGED <<now, lockVars, bbVars, extVars, patterns, calc, semantic, entities, nodes, episodes,
                   consolidated, archive, reflections, records, lite, memOps>>

\* MemoryLite.create_edge: INSERT INTO edges; valid_from is datetime('now').
CreateEdge(a, triple) ==
    /\ mcall[a].pc = "idle"
    /\ cyc[a].step = "none"
    /\ memOps' = memOps + 1
    /\ relations' = [relations EXCEPT !["edges"] = Append(@, Row(triple, now))]
    /\ mlog' = Append(mlog, Logged(a, Call("create_edge", "edges", triple), "id", TRUE))
    /\ UNCHANGED <<now, lockVars, bbVars, extVars, calcVars, semantic, entities, nodes, episodes,
                   consolidated, archive, reflections, records, lite, mcall, cyc>>

\* MemoryLite.invalidate_edge: the active rows of the triple are closed; the
\* method returns None.
InvalidateEdge(a, triple) ==
    /\ mcall[a].pc = "idle"
    /\ cyc[a].step = "none"
    /\ memOps' = memOps + 1
    /\ relations' = [relations EXCEPT !["edges"] =
                        Closed("edges", ActiveIds("edges", triple), now)]
    /\ mlog' = Append(mlog, Logged(a, Call("invalidate_edge", "edges", triple), "none",
                                   ActiveIds("edges", triple) # {}))
    /\ UNCHANGED <<now, lockVars, bbVars, extVars, calcVars, semantic, entities, nodes, episodes,
                   consolidated, archive, reflections, records, lite, mcall, cyc>>

\* create_entity of the server: the name is inserted unless it is there.
CreateEntity(a, name) ==
    /\ mcall[a].pc = "idle"
    /\ cyc[a].step = "none"
    /\ memOps' = memOps + 1
    /\ entities' = entities \cup {name}
    /\ mlog' = Append(mlog, Logged(a, [NoMCall EXCEPT !.op = "create_entity", !.name = name],
                                   IF name \in entities THEN "error" ELSE "success",
                                   name \notin entities))
    /\ UNCHANGED <<now, lockVars, bbVars, extVars, calcVars, semantic, relations, nodes, episodes,
                   consolidated, archive, reflections, records, lite, mcall, cyc>>

\* create_relation of the server: both entities must exist; then the INSERT
\* INTO relations, whatever rows of the triple there are.
CreateRelation(a, triple) ==
    LET ok == triple.source \in entities /\ triple.target \in entities
    IN
    /\ mcall[a].pc = "idle"
    /\ cyc[a].step = "none"
    /\ memOps' = memOps + 1
    /\ relations' = IF ok THEN [relations EXCEPT !["relations"] = Append(@, Row(triple, now))]
                    ELSE relations
    /\ mlog' = Append(mlog, Logged(a, Call("create_relation", "relations", triple),
                                   IF ok THEN "success" ELSE "error", ok))
    /\ UNCHANGED <<now, lockVars, bbVars, extVars, calcVars, semantic, entities, nodes, episodes,
                   consolidated, archive, reflections, records, lite, mcall, cyc>>

\* invalidate_relation of the server: the active rows of the triple are
\* closed; no row updated is reported as an error.
InvalidateRelation(a, triple) ==
    /\ mcall[a].pc = "idle"
    /\ cyc[a].step = "none"
    /\ memOps' = memOps + 1
    /\ relations' = [relations EXCEPT !["relations"] =
                        Closed("relations", ActiveIds("relations", triple), now)]
    /\ mlog' = Append(mlog, Logged(a, Call("invalidate_relation", "relations", triple),
                                   IF ActiveIds("relations", triple) = {} THEN "error"
                                   ELSE "success",
                                   ActiveIds("relations", triple) # {}))
    /\ UNCHANGED <<now, lockVars, bbVars, extVars, calcVars, semantic, entities, nodes, episodes,
                   consolidated, archive, reflections, records, lite, mcall, cyc>>

RelTick == Tick(MaxRelTime)

\* The caller of the operations that are one statement.
Caller == {1}

RelationNext ==
    \/ \E a \in Actors, tr \in Triples : memOps < MaxRelOps /\ UpsertRelation(a, tr)
    \/ \E a \in Actors : RelSelect(a) \/ RelWrite(a)
    \/ \E a \in Actors, updated \in BOOLEAN : RelFail(a, updated)
    \/ \E a \in Caller, tr \in Triples :
          memOps < MaxRelOps /\ (CreateEdge(a, tr) \/ InvalidateEdge(a, tr))
    \/ \E a \in Caller, tr \in Triples :
          memOps < MaxRelOps /\ (CreateRelation(a, tr) \/ InvalidateRelation(a, tr))
    \/ \E a \in Caller, n \in {"a", "b"} : memOps < MaxRelOps /\ CreateEntity(a, n)
    \/ RelTick

RelationSpec == Init /\ [][RelationNext]_vars

\* ----------------------------------------------- the memory: traversal
\* The working table of the recursive query at depth k: the active relations
\* at the entity, and then the active relations r joined to a row g of the
\* depth before by r.source = g.target OR r.target = g.source.
RECURSIVE Level(_, _, _)
Level(t, e, k) ==
    LET allActive == {relations[t][i] : i \in {j \in 1..Len(relations[t]) :
                                                  relations[t][j].valid_to = NoTime}}
    IN IF k = 1 THEN {r \in allActive : r.source = e \/ r.target = e}
       ELSE {r \in allActive : \E g \in Level(t, e, k - 1) :
                                  r.source = g.target \/ r.target = g.source}

\* WITH RECURSIVE entity_graph ... SELECT DISTINCT *: the rows with their
\* depths, the depth being one of the columns UNION and DISTINCT compare.
EntityGraph(t, e, depth) ==
    UNION {{[row |-> r, depth |-> k] : r \in Level(t, e, k)} : k \in 1..depth}

\* get_entity_relations(entity_name, depth) of the server.
GetEntityRelations(a, e, depth) ==
    LET c == [NoMCall EXCEPT !.op = "get_entity_relations", !.table = "relations",
                             !.name = e]
        ok == depth >= 1 /\ depth <= 3 /\ e \in entities
    IN
    /\ mcall[a].pc = "idle"
    /\ cyc[a].step = "none"
    /\ memOps' = memOps + 1
    /\ mlog' = Append(mlog, [Logged(a, c, IF ok THEN "success" ELSE "error", FALSE)
                                EXCEPT !.depth = depth,
                                       !.got = IF ok THEN EntityGraph("relations", e, depth)
                                               ELSE {}])
    /\ UNCHANGED <<now, lockVars, bbVars, extVars, calcVars, semantic, relations, entities, nodes,
                   episodes, consolidated, archive, reflections, records, lite, mcall, cyc>>

\* MemoryLite.get_relations(node_id, "both"): the active edges out of the
\* node and the active edges into it.
GetRelations(a, e) ==
    LET c == [NoMCall EXCEPT !.op = "get_relations", !.table = "edges", !.name = e]
        active == {relations["edges"][i] : i \in {j \in 1..Len(relations["edges"]) :
                                                 relations["edges"][j].valid_to = NoTime}}
    IN
    /\ mcall[a].pc = "idle"
    /\ cyc[a].step = "none"
    /\ memOps' = memOps + 1
    /\ mlog' = Append(mlog, [Logged(a, c, "success", FALSE)
                                EXCEPT !.depth = 1,
                                       !.got = {[row |-> r, depth |-> 1] :
                                                  r \in {x \in active : x.source = e
                                                                        \/ x.target = e}}])
    /\ UNCHANGED <<now, lockVars, bbVars, extVars, calcVars, semantic, relations, entities, nodes,
                   episodes, consolidated, archive, reflections, records, lite, mcall, cyc>>

\* The graphs the traversals are applied to: each of the relations between
\* two different entities is absent, active or closed.
Pairs == <<<<"a", "b">>, <<"b", "a">>, <<"b", "c">>, <<"c", "b">>, <<"a", "c">>,
           <<"c", "a">>>>
RelStatus == {"absent", "active", "closed"}
RECURSIVE GraphRows(_, _)
GraphRows(status, i) ==
    IF i > Len(Pairs) THEN <<>>
    ELSE LET row == [source |-> Pairs[i][1], type |-> "uses", target |-> Pairs[i][2],
                     valid_from |-> 0,
                     valid_to |-> IF status[i] = "closed" THEN 0 ELSE NoTime]
         IN (IF status[i] = "absent" THEN <<>> ELSE <<row>>) \o GraphRows(status, i + 1)

\* The depths the traversals are asked for; 0 and 4 are refused.
Depths == 0..4

TraverseInit ==
    /\ now = 0
    /\ InitLock
    /\ InitBB
    /\ InitExt
    /\ auditCap = AuditCap
    /\ InitStore
    /\ InitCalc
    /\ \E status \in [1..Len(Pairs) -> RelStatus] :
          relations = [t \in Tables |-> IF t = "semantic_relations" THEN <<>>
                                        ELSE GraphRows(status, 1)]
    /\ entities \in {Entities, Entities \ {"c"}}

TraverseNext ==
    \/ \E a \in Caller, e \in Entities, d \in Depths :
          memOps < 1 /\ GetEntityRelations(a, e, d)
    \/ \E a \in Caller, e \in Entities : memOps < 1 /\ GetRelations(a, e)

TraverseSpec == TraverseInit /\ [][TraverseNext]_vars

\* ------------------------------------------ the memory: nodes of MemoryLite
\* MemoryLite.create_node: INSERT OR REPLACE; a row that was there is replaced
\* by one with the defaults of the columns not given.
CreateNode(a, id, importance) ==
    /\ mcall[a].pc = "idle"
    /\ cyc[a].step = "none"
    /\ memOps' = memOps + 1
    /\ nodes' = [nodes EXCEPT ![id] = [present |-> TRUE, importance |-> importance,
                                       access_count |-> 0, last_accessed |-> now]]
    /\ mlog' = Append(mlog, Logged(a, [NoMCall EXCEPT !.op = "create_node", !.name = id,
                                                      !.importance = importance],
                                   "id", TRUE))
    /\ UNCHANGED <<now, lockVars, bbVars, extVars, calcVars, semantic, relations, entities, episodes,
                   consolidated, archive, reflections, records, lite, mcall, cyc>>

\* MemoryLite.get_node: the UPDATE of the access tracking and the SELECT, in
\* one transaction.
GetNode(a, id) ==
    /\ mcall[a].pc = "idle"
    /\ cyc[a].step = "none"
    /\ memOps' = memOps + 1
    /\ nodes' = IF nodes[id].present
                THEN [nodes EXCEPT ![id].access_count = @ + 1, ![id].last_accessed = now]
                ELSE nodes
    /\ mlog' = Append(mlog, [Logged(a, [NoMCall EXCEPT !.op = "get_node", !.name = id],
                                    IF nodes[id].present THEN "node" ELSE "none",
                                    nodes[id].present)
                                EXCEPT !.got = IF nodes[id].present THEN {id} ELSE {}])
    /\ UNCHANGED <<now, lockVars, bbVars, extVars, calcVars, semantic, relations, entities, episodes,
                   consolidated, archive, reflections, records, lite, mcall, cyc>>

\* MemoryLite.retrieve(query, limit): the nodes are selected, scored and
\* sorted, and the first limit of them returned; no statement writes.
Retrieve(a, limit) ==
    LET present == {i \in NodeIds : nodes[i].present}
    IN
    /\ mcall[a].pc = "idle"
    /\ cyc[a].step = "none"
    /\ memOps' = memOps + 1
    /\ \E returned \in {r \in SUBSET present : Cardinality(r) = Min(limit, Cardinality(present))} :
          mlog' = Append(mlog, [Logged(a, [NoMCall EXCEPT !.op = "retrieve"], "results", FALSE)
                                   EXCEPT !.got = returned])
    /\ UNCHANGED <<now, lockVars, bbVars, extVars, calcVars, semantic, relations, entities, nodes,
                   episodes, consolidated, archive, reflections, records, lite, mcall, cyc>>

\* The limits retrieve is called with.
Limits == {1, 10}

AccessNext ==
    \/ \E a \in Actors, i \in NodeIds, imp \in Importances :
          memOps < MaxReads /\ CreateNode(a, i, imp)
    \/ \E a \in Actors, i \in NodeIds : memOps < MaxReads /\ GetNode(a, i)
    \/ \E a \in Actors, l \in Limits : memOps < MaxReads /\ Retrieve(a, l)
    \/ RelTick

AccessSpec == Init /\ [][AccessNext]_vars

\* ------------------------------------------- the memory: the sleep cycle
\* record_episode: INSERT INTO episodic_memory.
RecordEpisode(a, e) ==
    /\ mcall[a].pc = "idle"
    /\ cyc[a].step = "none"
    /\ e \notin episodes \cup Range(archive)
    /\ episodes' = episodes \cup {e}
    /\ mlog' = Append(mlog, [Logged(a, [NoMCall EXCEPT !.op = "record_episode"], "success", TRUE)
                                EXCEPT !.run = RunOf(e), !.ids = <<e>>])
    /\ UNCHANGED <<now, lockVars, bbVars, extVars, calcVars, semantic, relations, entities, nodes,
                   consolidated, archive, reflections, records, lite, mcall, cyc, memOps>>

\* SELECT ... FROM episodic_memory WHERE pipeline_run_id = ? ORDER BY step_number
Fetched(r) == ListOf({e \in episodes : RunOf(e) = r})

\* What consolidate returns or raises at the end of the cycle c of actor a.
Finished(a, c, ret) ==
    [Logged(a, [NoMCall EXCEPT !.op = "consolidate", !.table = c.impl], ret, c.effects > 0)
        EXCEPT !.run = c.run, !.ids = c.ids, !.failed = c.failed, !.effects = c.effects,
               !.after = c.after, !.report = c.report, !.did = c.did]

\* A cycle over run r has returned its result with nothing failed, and it
\* had fetched every episode of r that has been recorded.
Drained(r) ==
    \E i \in 1..Len(mlog) :
        /\ mlog[i].op = "consolidate"
        /\ mlog[i].run = r
        /\ mlog[i].ret \in {"report", "success"}
        /\ mlog[i].ids # <<>>
        /\ mlog[i].failed = {}
        /\ \A j \in 1..Len(mlog) :
              (mlog[j].op = "record_episode" /\ mlog[j].run = r)
                  => Range(mlog[j].ids) \subseteq Range(mlog[i].ids)

Started(impl, r, ids) ==
    [NoCycle EXCEPT !.impl = impl, !.run = r, !.ids = ids, !.after = Drained(r)]

\* consolidate(pipeline_run_id) up to the first cluster: the fetch; no
\* episodes: the report of zeros; the importances and the clusters, where the
\* ValueError of _cosine_similarity leaves consolidate through its except
\* clause, which raises it again.
Consolidate(a, r) ==
    LET ids == Fetched(r)
        c == Started("consolidator", r, ids)
        clusters == ClusterEpisodes(ids)
    IN
    /\ mcall[a].pc = "idle"
    /\ cyc[a].step = "none"
    /\ memOps' = memOps + 1
    /\ IF ids = <<>>
       THEN /\ mlog' = Append(mlog, Finished(a, c, "report"))
            /\ cyc' = cyc
       ELSE IF ClusteringRaises(ids)
       THEN /\ mlog' = Append(mlog, Finished(a, [c EXCEPT !.failed = {"cluster"}], "error"))
            /\ cyc' = cyc
       ELSE /\ mlog' = mlog
            /\ cyc' = [cyc EXCEPT ![a] =
                          IF clusters = <<>> THEN AfterClusters(c)
                          ELSE [c EXCEPT !.step = "extract", !.clusters = clusters, !.ci = 1]]
    /\ UNCHANGED <<now, lockVars, bbVars, extVars, calcVars, semantic, relations, entities, nodes,
                   episodes, consolidated, archive, reflections, records, lite, mcall>>

\* _fetch_episodes raises (the SELECT, or row.get on a row that has no get):
\* its except clause returns [], and consolidate the report of zeros.
ConsolidateFetchFails(a, r) ==
    /\ mcall[a].pc = "idle"
    /\ cyc[a].step = "none"
    /\ memOps' = memOps + 1
    /\ mlog' = Append(mlog, Finished(a, [Started("consolidator", r, <<>>)
                                            EXCEPT !.failed = {"fetch"}], "report"))
    /\ UNCHANGED <<now, lockVars, bbVars, extVars, calcVars, semantic, relations, entities, nodes,
                   episodes, consolidated, archive, reflections, records, lite, mcall, cyc>>

\* _extract_insights(cluster) returns one entity, whose sources are the
\* episodes of the cluster, and one relation; the node is upserted first.
ExtractedName == "n"
ExtractedImportance == 8
CycExtract(a) ==
    LET c == cyc[a]
    IN
    /\ c.step = "extract"
    /\ cyc' = [cyc EXCEPT ![a].step = "upsert"]
    /\ mcall' = [mcall EXCEPT ![a] =
                    [NoMCall EXCEPT !.pc = "node_select", !.op = "upsert_node",
                                    !.name = ExtractedName, !.sources = c.clusters[c.ci],
                                    !.importance = ExtractedImportance,
                                    !.description = c.clusters[c.ci][1]]]
    /\ UNCHANGED <<now, lockVars, bbVars, extVars, calcVars, semantic, relations, entities, nodes,
                   episodes, consolidated, archive, reflections, records, lite, mlog, memOps>>

\* The call of the model raises or its answer is no JSON: _extract_insights
\* returns ([], []), and the cycle goes on with the next cluster.
CycExtractFails(a) ==
    /\ cyc[a].step = "extract"
    /\ cyc' = [cyc EXCEPT ![a] = AfterCluster([@ EXCEPT !.failed = @ \cup {"extract"}])]
    /\ UNCHANGED <<now, lockVars, bbVars, extVars, calcVars, semantic, relations, entities, nodes,
                   episodes, consolidated, archive, reflections, records, lite, mcall, mlog,
                   memOps>>

\* consolidate after a reflection: the next failure episode, or the archive.
AfterReflection(c) ==
    IF c.fi < Len(Failures(c.ids)) THEN [c EXCEPT !.fi = @ + 1]
    ELSE [c EXCEPT !.step = "archive"]

\* generate_reflection for a failure episode: INSERT INTO procedural_memory.
CycReflect(a) ==
    /\ cyc[a].step = "reflect"
    /\ reflections' = reflections + 1
    /\ pending' = Commit
    /\ cyc' = [cyc EXCEPT ![a] = AfterReflection(Noted(@, TRUE, "reflect"))]
    /\ UNCHANGED <<now, lockVars, bbVars, extVars, patterns, calc, semantic, relations, entities, nodes,
                   episodes, consolidated, archive, records, lite, mcall, mlog, memOps>>

\* generate_reflection raises inside: its except clause returns None.
CycReflectFails(a) ==
    /\ cyc[a].step = "reflect"
    /\ cyc' = [cyc EXCEPT ![a] = AfterReflection(Noted(@, FALSE, "reflect"))]
    /\ UNCHANGED <<now, lockVars, bbVars, extVars, calcVars, semantic, relations, entities, nodes,
                   episodes, consolidated, archive, reflections, records, lite, mcall, mlog,
                   memOps>>

\* _archive_episodes(ids): the rows of the ids that are in episodic_memory are
\* copied to the archive and deleted, in one transaction; then the report.
CycArchive(a) ==
    LET c == cyc[a]
        moved == SelectSeq(c.ids, LAMBDA e : e \in episodes)
        d == Counted(Noted(c, moved # <<>>, "none"), "episodes_processed", Len(c.ids),
                     Len(moved))
    IN
    /\ c.step = "archive"
    /\ archive' = archive \o moved
    /\ pending' = Commit
    /\ episodes' = episodes \ Range(c.ids)
    /\ mlog' = Append(mlog, Finished(a, [d EXCEPT !.failed = c.failed], "report"))
    /\ cyc' = [cyc EXCEPT ![a] = NoCycle]
    /\ UNCHANGED <<now, lockVars, bbVars, extVars, patterns, calc, semantic, relations, entities, nodes,
                   consolidated, reflections, records, lite, mcall, memOps>>

\* A statement of _archive_episodes raises: the except clause logs the error
\* and rolls back, and consolidate returns its report.
CycArchiveFails(a) ==
    /\ cyc[a].step = "archive"
    /\ mlog' = Append(mlog, Finished(a, Counted(Noted(cyc[a], FALSE, "archive"),
                                                "episodes_processed", Len(cyc[a].ids), 0),
                                      "report"))
    /\ relations' = Rollback
    /\ pending' = Commit
    /\ cyc' = [cyc EXCEPT ![a] = NoCycle]
    /\ UNCHANGED <<now, lockVars, bbVars, extVars, patterns, calc, semantic, entities, nodes,
                   episodes, consolidated, archive, reflections, records, lite, mcall, memOps>>

Recorded == Cardinality(episodes \cup Range(archive))

ConsolidationNext ==
    \/ \E a \in Caller, e \in EpisodeIds : Recorded < MaxRecorded /\ RecordEpisode(a, e)
    \/ \E a \in Actors, r \in PipelineRuns : memOps < MaxCycles /\ Consolidate(a, r)
    \/ \E a \in Actors, r \in PipelineRuns : memOps < MaxCycles /\ ConsolidateFetchFails(a, r)
    \/ \E a \in Actors : CycExtract(a) \/ CycExtractFails(a)
    \/ \E a \in Actors : NodeSelect(a) \/ NodeWrite(a) \/ NodeFail(a)
    \/ \E a \in Actors : RelSelect(a) \/ RelWrite(a)
    \/ \E a \in Actors, updated \in BOOLEAN : RelFail(a, updated)
    \/ \E a \in Actors : CycReflect(a) \/ CycReflectFails(a)
    \/ \E a \in Actors : CycArchive(a) \/ CycArchiveFails(a)

ConsolidationSpec == Init /\ [][ConsolidationNext]_vars

\* ------------------------------------ the memory: the server's sleep cycle
\* consolidate_episodes(pipeline_run_id) of the server: the fetch of the
\* episodes of the run; none: an error.
ConsolidateEpisodes(a, r) ==
    LET ids == Fetched(r)
        c == Started("server", r, ids)
    IN
    /\ mcall[a].pc = "idle"
    /\ cyc[a].step = "none"
    /\ memOps' = memOps + 1
    /\ IF ids = <<>>
       THEN /\ mlog' = Append(mlog, Finished(a, c, "error"))
            /\ cyc' = cyc
       ELSE /\ mlog' = mlog
            /\ cyc' = [cyc EXCEPT ![a] = [c EXCEPT !.step = "insert"]]
    /\ UNCHANGED <<now, lockVars, bbVars, extVars, calcVars, semantic, relations, entities, nodes,
                   episodes, consolidated, archive, reflections, records, lite, mcall>>

\* INSERT INTO semantic_memory: the narrative of the fetched episodes.
SrvInsert(a) ==
    /\ cyc[a].step = "insert"
    /\ records' = Append(records, [run |-> cyc[a].run, ids |-> cyc[a].ids])
    /\ cyc' = [cyc EXCEPT ![a] = [Noted(@, TRUE, "insert") EXCEPT !.step = "mark"]]
    /\ UNCHANGED <<now, lockVars, bbVars, extVars, calcVars, semantic, relations, entities, nodes,
                   episodes, consolidated, archive, reflections, lite, mcall, mlog, memOps>>

\* UPDATE episodic_memory SET consolidated = TRUE WHERE pipeline_run_id = $1,
\* and the summary.
SrvMark(a) ==
    LET c == cyc[a]
        marked == {e \in episodes : RunOf(e) = c.run}
    IN
    /\ c.step = "mark"
    /\ consolidated' = consolidated \cup marked
    /\ mlog' = Append(mlog, Finished(a, Noted(c, marked # {}, "mark"), "success"))
    /\ cyc' = [cyc EXCEPT ![a] = NoCycle]
    /\ UNCHANGED <<now, lockVars, bbVars, extVars, calcVars, semantic, relations, entities, nodes,
                   episodes, archive, reflections, records, lite, mcall, memOps>>

\* A statement or the embedding raises: the except clause returns the error.
SrvFails(a) ==
    /\ cyc[a].step \in {"insert", "mark"}
    /\ mlog' = Append(mlog, Finished(a, Noted(cyc[a], FALSE, cyc[a].step), "error"))
    /\ cyc' = [cyc EXCEPT ![a] = NoCycle]
    /\ UNCHANGED <<now, lockVars, bbVars, extVars, calcVars, semantic, relations, entities, nodes,
                   episodes, consolidated, archive, reflections, records, lite, mcall, memOps>>

DrainNext ==
    \/ \E a \in Caller, e \in EpisodeIds : Recorded < MaxRecorded /\ RecordEpisode(a, e)
    \/ \E a \in Actors, r \in PipelineRuns : memOps < MaxCycles /\ ConsolidateEpisodes(a, r)
    \/ \E a \in Actors : SrvInsert(a) \/ SrvMark(a) \/ SrvFails(a)

DrainSpec == Init /\ [][DrainNext]_vars

\* ------------------------------------- the memory: MemoryLite's blackboard
\* blackboard_set(key, value) up to its SELECT version FROM blackboard.
LiteSet(a, k) ==
    /\ mcall[a].pc = "idle"
    /\ cyc[a].step = "none"
    /\ memOps' = memOps + 1
    /\ mcall' = [mcall EXCEPT ![a] =
                    [NoMCall EXCEPT !.pc = "lite_write", !.op = "blackboard_set", !.key = k,
                                    !.found = lite[k].present,
                                    !.version = IF lite[k].present THEN lite[k].version + 1
                                                ELSE 1]]
    /\ UNCHANGED <<now, lockVars, bbVars, extVars, calcVars, semantic, relations, entities, nodes,
                   episodes, consolidated, archive, reflections, records, lite, cyc, mlog>>

\* INSERT OR REPLACE INTO blackboard with the version computed, the commit
\* and the return of the version.
LiteWrite(a) ==
    LET c == mcall[a]
    IN
    /\ c.pc = "lite_write"
    /\ lite' = [lite EXCEPT ![c.key] = [present |-> TRUE, version |-> c.version]]
    /\ mlog' = Append(mlog, Done(a, "version", TRUE))
    /\ mcall' = [mcall EXCEPT ![a] = NoMCall]
    /\ UNCHANGED <<now, lockVars, bbVars, extVars, calcVars, semantic, relations, entities, nodes,
                   episodes, consolidated, archive, reflections, records, cyc, memOps>>

\* blackboard_delete(key): DELETE FROM blackboard WHERE key = ?
LiteDelete(a, k) ==
    /\ mcall[a].pc = "idle"
    /\ cyc[a].step = "none"
    /\ memOps' = memOps + 1
    /\ lite' = [lite EXCEPT ![k] = NoEntry]
    /\ mlog' = Append(mlog, Logged(a, [NoMCall EXCEPT !.op = "blackboard_delete", !.key = k],
                                   "none", lite[k].present))
    /\ UNCHANGED <<now, lockVars, bbVars, extVars, calcVars, semantic, relations, entities, nodes,
                   episodes, consolidated, archive, reflections, records, mcall, cyc>>

VersionNext ==
    \/ \E a \in Actors, k \in LiteKeys : memOps < MaxSets /\ LiteSet(a, k)
    \/ \E a \in Actors : LiteWrite(a)
    \/ \E a \in Actors, k \in LiteKeys : memOps < MaxSets /\ LiteDelete(a, k)

VersionSpec == Init /\ [][VersionNext]_vars

\* ------------------------------------------- the memory: the patterns
\* math.exp(-0.995 * hours) in thousandths, hours being datetime.now(), a
\* local time, minus last_used, the UTC time of datetime('now'): 1 where no
\* time has passed, 0 after days, and far above 1 where the local clock is
\* hours behind UTC.  Ticks later it is 0.
Recencies == {0, 1000, 2864000}

RECURSIVE Gcd(_, _)
Gcd(x, y) == IF y = 0 THEN x ELSE Gcd(y, x % y)

\* The fraction num / den in lowest terms.
Fraction(num, den) ==
    LET g == Gcd(num, den)
    IN [num |-> num \div g, den |-> den \div g]

\* new_rate = ((old_rate * existing['times_used']) + (1 if success else 0)) / times_used
NewRate(row, success) ==
    Fraction(row.rate_num * row.times_used + (IF success THEN row.rate_den ELSE 0),
             row.rate_den * (row.times_used + 1))

\* utility = (times_used * 0.4) + (new_rate * 0.3) + (recency * 0.3);
\* min(1.0, utility / 10), in thousandths.
Utility(times_used, rate, recency) ==
    Min(1000, (times_used * 400 + (rate.num * 300) \div rate.den
               + (recency * 3) \div 10) \div 10)

\* The pattern id of a group of episodes is "<task_type>-<outcome>", and the
\* success consolidate passes with it is outcome == 'success'.
OutcomeOf(id) == id = "p"

\* record_pattern(pattern_id, ..., success), called directly (op
\* "record_pattern") or by MemoryLite.consolidate for a group of episodes (op
\* "consolidate"), up to its SELECT.
RecordPattern(a, op, id, success) ==
    /\ mcall[a].pc = "idle"
    /\ cyc[a].step = "none"
    /\ op = "consolidate" => success = OutcomeOf(id)
    /\ memOps' = memOps + 1
    /\ mcall' = [mcall EXCEPT ![a] = [NoMCall EXCEPT !.pc = "pat_select", !.op = op,
                                                     !.table = "patterns", !.name = id,
                                                     !.success = success]]
    /\ UNCHANGED <<now, lockVars, bbVars, extVars, calcVars, semantic, relations, entities, nodes,
                   episodes, consolidated, archive, reflections, records, lite, cyc, mlog>>

\* SELECT * FROM patterns WHERE id = ?, which opens no transaction, and the
\* recency of the row it gave.
PatSelect(a) ==
    LET c == mcall[a]
        row == patterns[c.name]
    IN
    /\ c.pc = "pat_select"
    /\ \E recency \in (IF row.present /\ row.last_used = now THEN Recencies ELSE {0}) :
          mcall' = [mcall EXCEPT ![a].pc = "pat_write", ![a].found = row.present,
                                 ![a].row = row, ![a].recency = recency]
    /\ UNCHANGED <<now, lockVars, bbVars, extVars, calcVars, semantic, relations, entities, nodes,
                   episodes, consolidated, archive, reflections, records, lite, cyc, mlog,
                   memOps>>

\* The UPDATE with the values computed from the row the SELECT gave, or the
\* INSERT, which raises sqlite3.IntegrityError where the id is there by now
\* (_get_conn rolls back and raises it again); conn.commit() and the return.
PatWrite(a) ==
    LET c == mcall[a]
        rate == NewRate(c.row, c.success)
        raises == ~c.found /\ patterns[c.name].present
        this == [c EXCEPT !.op = "record_pattern"]
    IN
    /\ c.pc = "pat_write"
    /\ patterns' =
         IF c.found
         THEN [patterns EXCEPT ![c.name] =
                 [@ EXCEPT !.rate_num = rate.num, !.rate_den = rate.den,
                           !.times_used = c.row.times_used + 1,
                           !.utility = Utility(c.row.times_used + 1, rate, c.recency),
                           !.last_used = now]]
         ELSE IF raises THEN patterns
         ELSE [patterns EXCEPT ![c.name] =
                 [present |-> TRUE, times_used |-> 1,
                  rate_num |-> IF c.success THEN 1 ELSE 0, rate_den |-> 1,
                  utility |-> 500, last_used |-> now]]
    /\ mlog' = Append(mlog, Logged(a, this, IF raises THEN "IntegrityError" ELSE "id",
                                   ~raises))
    /\ mcall' = [mcall EXCEPT ![a] = IF c.op = "consolidate" /\ ~raises
                                     THEN [c EXCEPT !.pc = "decay"]
                                     ELSE NoMCall]
    /\ UNCHANGED <<now, lockVars, bbVars, extVars, pending, calc, semantic, relations, entities,
                   nodes, episodes, consolidated, archive, reflections, records, lite, cyc,
                   memOps>>

\* The end of MemoryLite.consolidate: UPDATE patterns SET utility_score =
\* utility_score * 0.9 WHERE last_used < cutoff, the cutoff being 7 days
\* before now; conn.commit().
Decay(a) ==
    /\ mcall[a].pc = "decay"
    /\ patterns' = [i \in PatternIds |->
                       IF patterns[i].present /\ patterns[i].last_used < now - 1
                       THEN [patterns[i] EXCEPT !.utility = (@ * 9) \div 10]
                       ELSE patterns[i]]
    /\ mlog' = Append(mlog, Done(a, "summary", TRUE))
    /\ mcall' = [mcall EXCEPT ![a] = NoMCall]
    /\ UNCHANGED <<now, lockVars, bbVars, extVars, pending, calc, semantic, relations, entities,
                   nodes, episodes, consolidated, archive, reflections, records, lite, cyc,
                   memOps>>

UseTick == Tick(MaxUseTime)

UseNext ==
    \/ \E a \in Actors, op \in {"record_pattern", "consolidate"}, id \in PatternIds,
          success \in BOOLEAN : memOps < MaxUses /\ RecordPattern(a, op, id, success)
    \/ \E a \in Actors : PatSelect(a)
    \/ \E a \in Actors : PatWrite(a)
    \/ \E a \in Actors : Decay(a)
    \/ UseTick

UseSpec == Init /\ [][UseNext]_vars

\* ------------------------------------------- the memory: the clustering
\* The lists of episodes _cluster_episodes is called with, in the order of
\* their steps, and the sizes the configuration is overridden with.
RECURSIVE ListsOver(_, _)
ListsOver(S, n) ==
    IF n = 0 THEN {<<>>}
    ELSE {<<>>} \cup {<<x>> \o q : x \in S, q \in ListsOver(S, n - 1)}
Distinct(q) == \A i, j \in 1..Len(q) : i # j => q[i] # q[j]
EpisodeLists == {q \in ListsOver(EpisodeIds, MaxClustered) : Distinct(q)}
MinSizes == {1, 2, 3}
MaxSizes == {2, 10}

ClusterInit ==
    /\ now = 0
    /\ InitLock
    /\ InitBB
    /\ InitExt
    /\ auditCap = AuditCap
    /\ InitGraph
    /\ InitStore
    /\ pending = {}
    /\ patterns = [i \in PatternIds |-> NoPattern]
    /\ \E ids \in EpisodeLists, lo \in MinSizes, hi \in MaxSizes :
          calc = [fn |-> "args", ids |-> ids,
                  cfg |-> [DefaultConfig EXCEPT !.min_cluster_size = lo,
                                                !.max_cluster_size = hi]]

\* The call of _cluster_episodes with the arguments drawn.
ClusterCall ==
    /\ calc.fn = "args"
    /\ calc' = [fn |-> "cluster_episodes", ids |-> calc.ids, cfg |-> calc.cfg,
                raised |-> ClusteringRaises(calc.ids),
                clusters |-> IF ClusteringRaises(calc.ids) THEN <<>>
                             ELSE ClusterWith(calc.cfg, calc.ids)]
    /\ UNCHANGED <<now, lockVars, bbVars, extVars, memVars, pending, patterns>>

ClusterNext == ClusterCall

ClusterSpec == ClusterInit /\ [][ClusterNext]_vars

\* ------------------------------------------- the memory: the importance
\* Words of the contents that are scored, as sequences of characters: some
\* of the high indicators, some of the low indicators, and a word that is
\* neither.
Bug == <<"b", "u", "g">>
Fix == <<"f", "i", "x">>
ErrorWord == <<"e", "r", "r", "o", "r">>
DebugColon == <<"d", "e", "b", "u", "g", ":">>
InfoColon == <<"i", "n", "f", "o", ":">>
Loading == <<"l", "o", "a", "d", "i", "n", "g">>
Config == <<"c", "o", "n", "f", "i", "g">>
HighIndicators == {Bug, Fix, ErrorWord}
LowIndicators == {DebugColon, InfoColon, Loading}
Words == HighIndicators \cup LowIndicators \cup {Config}

\* ' '.join(words)
RECURSIVE Joined(_)
Joined(ws) ==
    IF ws = <<>> THEN <<>>
    ELSE IF Len(ws) = 1 THEN ws[1]
    ELSE ws[1] \o <<" ">> \o Joined(Tail(ws))

\* indicator in content_lower: the indicator is a substring of the content.
Contains(content, indicator) ==
    \E i \in 1..(Len(content) - Len(indicator) + 1) :
        SubSeq(content, i, i + Len(indicator) - 1) = indicator

\* high_count and low_count
HighCount(content) == Cardinality({x \in HighIndicators : Contains(content, x)})
LowCount(content) == Cardinality({x \in LowIndicators : Contains(content, x)})

\* The contents scored: up to MaxWords words, followed by more text that
\* holds no indicator, of a length that leaves the content short, makes it of
\* middle length, or long.
WordLists == UNION {[1..n -> Words] : n \in 0..MaxWords}
Paddings == {0, 60, 600}

\* _calculate_importance(content) of the content made of the words ws and
\* pad more characters.
ScoreContent(ws, pad) ==
    /\ calc.fn = "none"
    /\ calc' = [fn |-> "calculate_importance", words |-> ws, pad |-> pad,
                score |-> CalculateImportance([high |-> HighCount(Joined(ws)),
                                               low |-> LowCount(Joined(ws)),
                                               length |-> Len(Joined(ws)) + pad])]
    /\ UNCHANGED <<now, lockVars, bbVars, extVars, memVars, pending, patterns>>

ImportanceNext == \E ws \in WordLists, pad \in Paddings : ScoreContent(ws, pad)

ImportanceSpec == Init /\ [][ImportanceNext]_vars

\* ------------------------------------------------------------ the claims
\* An actor is a holder of r from the moment its acquire_lock returned true
\* until it calls release_lock or its own TTL has elapsed.
Holder(a, r) == holdUntil[a][r] # 0
Holders(r) == {a \in Actors : Holder(a, r)}
Polling(a) == pc[a] \in {"poll", "sleep"}

\* C1: for every resource and every interleaving of acquire_lock, release_lock
\* and TTL expiry, at most one actor is a holder at any instant.
C1_AtMostOneHolder == \A r \in Resources : Cardinality(Holders(r)) <= 1

\* C2: between two moments at which the resource is free, exactly one
\* conditional put returns true, and it is the first one made: concurrent
\* callers on a free resource get one true and otherwise false, and the first
\* acquire_lock after a release returns true.
C2_OneWinner ==
    \A r \in Resources :
       /\ sinceFree[r].granted <= 1
       /\ sinceFree[r].first \in {"none", "true"}
       /\ (lockMarker[r] # NoMarker) <=> (sinceFree[r].granted = 1)

\* Two actors called acquire_lock on the same resource, one got true and the
\* other false.
C2_Witness ==
    \E a, b \in Actors, r \in Resources :
       /\ a # b
       /\ call[a].op = "acquire_lock" /\ call[a].resource = r /\ result[a] = "true"
       /\ call[b].op = "acquire_lock" /\ call[b].resource = r /\ result[b] = "false"
       /\ lockMarker[r].owner = a

\* C3: the marker of a holder that never releases is gone once its TTL has
\* elapsed, and a blocking acquire_lock of another actor whose deadline lies
\* after the marker's expiry returns true, unless some other actor sets a new
\* marker on the resource in the meantime.
C3_MarkerGoneAfterTtl ==
    \A r \in Resources : lockMarker[r] # NoMarker => now < lockMarker[r].exp

C3_WaiterGetsLock ==
    \A a, b \in Actors, r \in Resources, e \in 1..MaxTime :
       ( /\ a # b
         /\ lockMarker[r] = [owner |-> a, exp |-> e]
         /\ Polling(b) /\ call[b].resource = r
         /\ startTime[b] + call[b].timeout > e )
       ~> ( \/ ~Polling(b) /\ result[b] = "true"
            \/ \E c \in Actors \ {b} :
                  lockMarker[r].owner = c /\ lockMarker[r] # [owner |-> a, exp |-> e] )

C4_Terminates == \A a \in Actors : Polling(a) ~> ~Polling(a)

C4_SuccessStep ==
    \A a \in Actors :
       (pc[a] = "poll" /\ result'[a] = "true") => lockMarker[call[a].resource] = NoMarker

C4_FailureStep ==
    \A a \in Actors :
       (pc[a] = "poll" /\ result'[a] = "LockTimeout")
       => /\ TimedOut(a)
          /\ lockMarker[call[a].resource] # NoMarker
          /\ lockMarker' = lockMarker
          /\ holdUntil' = holdUntil
          /\ pc'[a] = "idle"

C4_BlockingTimeout ==
    C4_Terminates /\ [][C4_SuccessStep]_vars /\ [][C4_FailureStep]_vars

\* A blocking acquire_lock has failed with LockTimeout while another actor
\* holds the resource.
C4_Witness ==
    \E a, b \in Actors :
       /\ a # b
       /\ result[a] = "LockTimeout"
       /\ lockMarker[call[a].resource].owner = b
       /\ ~Holder(a, call[a].resource)

\* C5: Blackboard.lock runs its body exactly when its own acquisition
\* succeeded, and issues release_lock exactly once for every body that ended,
\* normally or by raising; a failed acquisition runs no body and issues no release.
C5_ScopedRelease ==
    \A a \in Actors :
       LET s == scopeStat[a]
       IN /\ s.bodyRuns = s.acquired
          /\ s.releases = s.bodyExits
          /\ s.releases <= s.acquired
          /\ s.failed = 1 => s.bodyRuns = 0 /\ s.releases = 0
          /\ (pc[a] = "body") <=> (s.bodyRuns = 1 /\ s.bodyExits = 0)
          /\ (s.entered = 1 /\ pc[a] = "idle") => s.releases = s.acquired
          /\ (s.entered = 1 /\ pc[a] = "idle" /\ s.releases = 1)
                => lockMarker[call[a].resource].owner # a /\ ~Holder(a, call[a].resource)

\* A body raised and the lock was released; another scoped call failed to
\* acquire and released nothing.
C5_Witness ==
    \E a, b \in Actors :
       /\ a # b
       /\ scopeStat[a].releases = 1 /\ result[a] = "BodyError"
       /\ scopeStat[b].failed = 1 /\ scopeStat[b].releases = 0
       /\ result[b] \in {"LockAcquisitionError", "LockTimeout"}

\* The artifact calls that have been started, by their ids.
Calls == 1..Len(opLog)
Succeeded(id) == opLog[id].status = "ok"

\* C6 as stated: every successful write or delete of a present key has
\* produced exactly one event and exactly one audit entry, whatever its arguments.
C6_OneEventOneAudit ==
    \A id \in Calls :
       Succeeded(id) => CountOf(events, id) = 1 /\ CountOf(audit, id) = 1

\* C6 as amended: every successful write or delete of a present key has
\* produced exactly one audit entry, and exactly one event unless it is a write
\* called with notify=false, which has produced none.
C6_OneAuditEventIfNotify ==
    \A id \in Calls :
       Succeeded(id) =>
          /\ CountOf(audit, id) = 1
          /\ CountOf(events, id) =
                IF opLog[id].op = "write" /\ ~opLog[id].notify THEN 0 ELSE 1

\* A write with notify=false and a delete of a present key have both succeeded.
C6_Witness ==
    \E i, j \in Calls :
       /\ Succeeded(i) /\ opLog[i].op = "write" /\ ~opLog[i].notify
       /\ Succeeded(j) /\ opLog[j].op = "delete"

\* The events a watcher holds: delivered to it, or given to its consumer.
Held(w) == {inbox[w][i] : i \in 1..Len(inbox[w])} \cup ({yielded[w]} \ {NoEvent})

\* C7: in every write the artifact is stored before the event is published
\* and the event is published before the audit entry is appended; so when a
\* watcher holds a write event for a key, that write has been applied by the
\* store, and an artifact stored under the key is of that write or of a later one.
C7_StoreThenPublishThenAudit ==
    /\ \A i \in 1..Len(events) : Pos(commits, events[i].op) # 0
    /\ \A i \in 1..Len(audit) :
          /\ Pos(commits, audit[i].op) # 0
          /\ opLog[audit[i].op].notify => CountOf(events, audit[i].op) = 1
    /\ \A w \in Watchers : \A ev \in Held(w) :
          /\ Pos(commits, ev.op) # 0
          /\ (ev.action = "write" /\ artifact[ev.key] # NoArtifact)
                => Pos(commits, artifact[ev.key].op) >= Pos(commits, ev.op)

\* A consumer has been given the event of a write whose envelope a later
\* write has replaced, and the audit entry of the first write is appended.
C7_Witness ==
    \E w \in Watchers :
       /\ yielded[w].action = "write"
       /\ artifact[yielded[w].key] # NoArtifact
       /\ artifact[yielded[w].key].op # yielded[w].op
       /\ CountOf(audit, yielded[w].op) = 1

\* C8: when a consumer has received a write event for a key and then read the
\* key, the artifact it read has a timestamp at or after the event's.
C8_NoStaleRead ==
    \A w \in Watchers :
       (observed[w].event.action = "write" /\ observed[w].artifact # NoArtifact)
       => observed[w].artifact.timestamp >= observed[w].event.timestamp

\* C9: for a single key, the events are published and the audit entries
\* appended in the order in which the store applied their operations.
C9_OrderFollowsCommits ==
    /\ \A i, j \in 1..Len(events) :
          (i < j /\ events[i].key = events[j].key)
          => Pos(commits, events[i].op) < Pos(commits, events[j].op)
    /\ \A i, j \in 1..Len(audit) :
          (i < j /\ audit[i].key = audit[j].key)
          => Pos(commits, audit[i].op) < Pos(commits, audit[j].op)

\* C10: successive audit entries of the same key have non-decreasing timestamps.
C10_AuditMonotone ==
    \A i, j \in 1..Len(audit) :
       (i < j /\ audit[i].key = audit[j].key)
       => FromStr(audit[i].timestamp) <= FromStr(audit[j].timestamp)

\* C11: the envelope and its TTL are stored as one atomic step: in no state is
\* an artifact that was written with ttl > 0 stored without an expiration.
C11_TtlStoredWithEnvelope ==
    \A k \in Keys :
       (artifact[k] # NoArtifact /\ opLog[artifact[k].op].ttl > 0) => artifactExp[k] # 0

\* C12 as stated: the envelope a write has stored is read back with data equal
\* to the value written, the type written and version 1; and a stored envelope
\* changes only by a write replacing it whole or by being removed.
C12_WholeEnvelopes ==
    \A k \in Keys :
       artifact'[k] # artifact[k] =>
          \/ artifact'[k] = NoArtifact
          \/ \E a \in Actors : pc[a] = "set" /\ bcall[a].key = k
                             /\ commits' = Append(commits, bcall[a].id)

C12_ReadReturnsWritten ==
    [][ /\ C12_WholeEnvelopes
        /\ \A a \in Actors :
              (pc[a] = "set" /\ commits' = Append(commits, bcall[a].id)) =>
                 /\ ReadArtifact(bcall[a].key)'.data = bcall[a].value
                 /\ ReadArtifact(bcall[a].key)'.type = bcall[a].type
                 /\ ReadArtifact(bcall[a].key)'.version = 1 ]_vars

\* C12 as amended: the data read back is the value as JSON gives it back: the
\* value itself, except that a tuple is read back as the list of its items.
C12_ReadReturnsJsonOfWritten ==
    [][ /\ C12_WholeEnvelopes
        /\ \A a \in Actors :
              (pc[a] = "set" /\ commits' = Append(commits, bcall[a].id)) =>
                 /\ ReadArtifact(bcall[a].key)'.data =
                       IF bcall[a].value.kind = "tuple"
                       THEN [kind |-> "list", body |-> bcall[a].value.body]
                       ELSE bcall[a].value
                 /\ ReadArtifact(bcall[a].key)'.type = bcall[a].type
                 /\ ReadArtifact(bcall[a].key)'.version = 1 ]_vars

\* Two writers have stored an envelope under the same key, and a consumer has
\* read the str one of them wrote.
C12_Witness ==
    \E w \in Watchers :
       /\ Len(commits) = 2
       /\ observed[w].artifact # NoArtifact
       /\ observed[w].artifact.data = [kind |-> "str", body |-> <<"v1">>]
       /\ observed[w].artifact.version = 1

\* C14: a call whose store operation failed with a connection or timeout
\* error has been attempted 3 times and has ended with ConnectionError.
C14_TransientRetried ==
    \A id \in Calls :
       opLog[id].cause \in {"redis.ConnectionError", "redis.TimeoutError"} =>
          opLog[id].attempts = MaxRetries /\ opLog[id].status = "ConnectionError"

C13_DeleteOutcome ==
    \A id \in Calls :
       opLog[id].op = "delete" =>
          /\ opLog[id].status \in {"running", "ok", "false"}
          /\ opLog[id].status = "ok" =>
                /\ CountOf(events, id) = 1
                /\ CountOf(audit, id) = 1
                /\ Pos(commits, id) # 0
          /\ opLog[id].status = "false" =>
                /\ CountOf(events, id) = 0
                /\ CountOf(audit, id) = 0
                /\ Pos(commits, id) = 0

C13_DeleteStep ==
    \A k \in Keys :
       ( /\ Len(opLog') = Len(opLog) + 1
         /\ opLog'[Len(opLog')].op = "delete"
         /\ opLog'[Len(opLog')].key = k ) =>
          /\ ReadArtifact(k)' = NoArtifact
          /\ IF ReadArtifact(k) # NoArtifact
             THEN /\ opLog'[Len(opLog')].status = "running"
                  /\ commits' = Append(commits, Len(opLog'))
             ELSE /\ opLog'[Len(opLog')].status = "false"
                  /\ UNCHANGED <<artifact, artifactExp, events, audit, inbox, commits>>

C13_DeleteIdempotent == []C13_DeleteOutcome /\ [][C13_DeleteStep]_vars

\* A delete of a key returned true and a later delete of the same key false.
C13_Witness ==
    \E i, j \in Calls :
       /\ i < j
       /\ opLog[i].op = "delete" /\ opLog[i].status = "ok"
       /\ opLog[j].op = "delete" /\ opLog[j].status = "false"
       /\ opLog[i].key = opLog[j].key

\* A message of call id waits in the queue of watcher w.
InInbox(w, id) == \E i \in 1..Len(inbox[w]) : inbox[w][i].op = id

\* C17: a watcher yields an event exactly when the event was delivered to it
\* and its key matches the watcher's pattern.  What a watcher is given to
\* yield is decodable and matches; a message is queued for every watcher
\* subscribed when it is published, whatever the others have consumed; a
\* watcher's step takes the message at the head of its own queue only, yields
\* it if it is decodable and matches and otherwise skips it and stays
\* subscribed; and a watcher that keeps running yields every matching event
\* delivered to it, whether or not the other watcher's consumer comes back.
C17_YieldsOnlyMatching ==
    \A w \in Watchers :
       yielded[w] # NoEvent =>
          Decodable(yielded[w]) /\ MatchesPattern(yielded[w].key, PatternOf(w))

C17_WatcherStep ==
    /\ events' # events =>
          \A w \in subscribed : inbox'[w] = Append(inbox[w], events'[Len(events')])
    /\ \A w \in Watchers :
          (inbox[w] # <<>> /\ inbox'[w] = Tail(inbox[w])) =>
             /\ yielded'[w] = IF /\ Head(inbox[w]).action # "undecodable"
                                 /\ MatchesPattern(Head(inbox[w]).key, PatternOf(w))
                              THEN Head(inbox[w]) ELSE NoEvent
             /\ w \in subscribed'
             /\ \A v \in Watchers \ {w} : inbox'[v] = inbox[v] /\ yielded'[v] = yielded[v]

C17_EventuallyYielded ==
    \A w \in Watchers \ Readers : \A id \in 1..MaxEvents :
       (\E i \in 1..Len(inbox[w]) :
           inbox[w][i].op = id /\ MatchesPattern(inbox[w][i].key, PatternOf(w)))
       ~> (yielded[w].op = id)

C17_IndependentFanOut ==
    []C17_YieldsOnlyMatching /\ [][C17_WatcherStep]_vars /\ C17_EventuallyYielded

\* The watcher with the prefix pattern has yielded an event while the other
\* watcher's consumer still sits on an earlier event with a later one queued.
C17_Witness ==
    \E w \in Watchers \ Readers, v \in Readers :
       /\ yielded[w].action = "write"
       /\ yielded[v] # NoEvent
       /\ InInbox(v, yielded[w].op)

\* C18: a watch sequence does not end when its transport is lost: the watcher
\* subscribes again and goes on yielding to the same consumer.
C18_WatchSurvivesLoss == ended = {}

\* The entries of sequence q from position i on.
From(q, i) == SubSeq(q, i, Len(q))

\* C16 as stated: the audit stream holds the most recently appended entries,
\* at most the cap of them, and get_history(limit) returns the
\* min(limit, stream length) most recently appended ones, newest first.
C16_StreamIsRecent ==
    /\ Len(audit) <= Len(appended)
    /\ audit = From(appended, Len(appended) - Len(audit) + 1)

C16_HistoryStep ==
    history' # history =>
       /\ Len(history'.entries) = Min(history'.limit, Len(audit))
       /\ \A i \in 1..Len(history'.entries) :
             /\ history'.entries[i].id = appended[Len(appended) - i + 1].op
             /\ history'.entries[i].key = appended[Len(appended) - i + 1].key
             /\ history'.entries[i].action = appended[Len(appended) - i + 1].action

C19_FilterAccepts ==
    match.applied =>
       LET key == match.key
           pattern == match.pattern
           starAlone == Len(pattern) = 1 /\ pattern[1] = "*"
           hasStar == \E i \in 1..Len(pattern) : pattern[i] = "*"
           startsWithPrefix ==
              \E n \in 0..(Len(pattern) - 1) :
                 /\ pattern[n + 1] = "*"
                 /\ \A i \in 1..n : pattern[i] # "*"
                 /\ Len(key) >= n
                 /\ \A i \in 1..n : key[i] = pattern[i]
           sameString ==
              Len(key) = Len(pattern) /\ \A i \in 1..Len(key) : key[i] = pattern[i]
       IN match.result <=>
             \/ starAlone
             \/ hasStar /\ startsWithPrefix
             \/ ~hasStar /\ sameString

\* The filter has accepted a key by the characters before the first '*' of a
\* pattern that goes on after it.
C19_Witness ==
    /\ match.applied
    /\ match.pattern = <<"k", "*", "j">>
    /\ match.key = <<"k", "k">>
    /\ match.result

\* No set_pipeline_state is under way.
NoSetRunning == \A b \in Actors : pcall[b].pc = "idle"

\* The latest set of run r that returned did so fewer than 24 hours ago, and
\* no clear has come since.
Retained(r) == lastSet[r] # NoSet /\ now - lastSet[r].at < Retention

\* C20: get_pipeline_state returns the step and status of the most recent
\* set_pipeline_state of the run as long as fewer than 24 hours have passed
\* since it and no clear_pipeline_state came in between, and otherwise
\* absent; clear_pipeline_state returns true exactly when a state existed.
C20_PipelineStep ==
    \A a \in Actors, r \in Runs :
       ( /\ NoSetRunning
         /\ opsDone' = opsDone + 1
         /\ pcall'[a].id = opsDone + 1
         /\ pcall'[a].run = r ) =>
          /\ pcall'[a].op = "get" =>
                IF Retained(r)
                THEN /\ pcall'[a].got.step = lastSet[r].step
                     /\ pcall'[a].got.status = lastSet[r].status
                ELSE pcall'[a].got = NoResult
          /\ pcall'[a].op = "clear" => (pcall'[a].cleared <=> Retained(r))

C20_RetainedForADay == [][C20_PipelineStep]_vars

\* ------------------------------------------------------------------ C21
\* The upserts of name n that have written a row.
Upserted(n) == {i \in 1..Len(mlog) : /\ mlog[i].op = "upsert_node"
                                     /\ mlog[i].name = n
                                     /\ mlog[i].wrote}

RECURSIVE MaxOf(_)
MaxOf(S) == IF S = {} THEN 0 ELSE LET x == CHOOSE y \in S : TRUE
                                  IN Max(x, MaxOf(S \ {x}))

\* C21: after any sequence of upserts of a name, the sources of the stored
\* node are the union of the sources of those upserts, and its importance is
\* the largest of theirs.
C21_SourcesAreUnion ==
    \A n \in NodeNames :
        Upserted(n) # {} =>
            /\ semantic[n].present
            /\ Range(JsonLoads(semantic[n].sources).body)
                   = UNION {Range(mlog[i].sources) : i \in Upserted(n)}
            /\ semantic[n].importance = MaxOf({mlog[i].importance : i \in Upserted(n)})

\* The part of C21 about the importance alone.
C21_ImportanceIsMax ==
    \A n \in NodeNames :
        Upserted(n) # {} =>
            semantic[n].importance = MaxOf({mlog[i].importance : i \in Upserted(n)})

\* ------------------------------------------------------------------ C22
\* A step in which the upsert_relation of actor a returns true.
UpsertReturns(a) ==
    /\ mcall[a].pc = "rel_write"
    /\ mlog' = Append(mlog, Done(a, "true", TRUE))

\* After the upsert of a triple there is exactly one active record of the
\* triple, and the records of the triple that were active before it returned
\* are closed at the time of the call.
C22_UpsertStep ==
    \A a \in Actors, t \in Tables, tr \in Triples :
        (UpsertReturns(a) /\ mcall[a].table = t /\ mcall[a].triple = tr) =>
            /\ Cardinality(ActiveIds(t, tr)') = 1
            /\ \A i \in ActiveIds(t, tr) : relations'[t][i].valid_to = mcall[a].stamp

\* C22: after every upsert_relation of a triple, whatever relation
\* operations came before it or run together with it, exactly one active
\* record of the triple exists, and the record that was active before is
\* closed at the time of the call.
C22_OneActiveAfterUpsert == [][C22_UpsertStep]_vars

\* ------------------------------------------------------------------ C23
\* No step takes a record away or changes what a record is about, and a
\* closed record stays as it is.
C23_RelationStep ==
    \A t \in Tables :
        /\ Len(relations'[t]) >= Len(relations[t])
        /\ \A i \in 1..Len(relations[t]) :
              /\ TripleOf(relations'[t][i]) = TripleOf(relations[t][i])
              /\ relations'[t][i].valid_from = relations[t][i].valid_from
              /\ relations[t][i].valid_to # NoTime => relations'[t][i] = relations[t][i]

\* C23: no relation operation removes a relation record or changes a closed
\* one: the records only grow in number and the valid_until of a record is
\* set at most once.
C23_ClosedStaysClosed == [][C23_RelationStep]_vars

\* A step in which an invalidation returns.
Invalidates(t, tr) ==
    /\ Len(mlog') = Len(mlog) + 1
    /\ mlog'[Len(mlog')].op \in {"invalidate_relation", "invalidate_edge"}
    /\ mlog'[Len(mlog')].table = t
    /\ mlog'[Len(mlog')].triple = tr

\* The part of C23 about invalidate_relation: it closes only the active
\* records of the triple it names.
C23_InvalidateClosesNamed ==
    [][\A t \in Tables, tr \in Triples :
          Invalidates(t, tr) =>
              \A i \in 1..Len(relations[t]) :
                  relations'[t][i] # relations[t][i] => i \in ActiveIds(t, tr)]_vars

\* The part of C23 about the report of invalidate_relation: false or an
\* error where the triple has no active record.
C23_InvalidateReports ==
    [][\A t \in Tables, tr \in Triples :
          (Invalidates(t, tr) /\ ActiveIds(t, tr) = {}) =>
              mlog'[Len(mlog')].ret \in {"false", "error"}]_vars

\* ------------------------------------------------------------------ C24
\* The active relations of table t.
ActiveRows(t) ==
    {relations[t][i] : i \in {j \in 1..Len(relations[t]) : relations[t][j].valid_to = NoTime}}

\* The entities a breadth-first search from e reaches within k hops, the
\* active relations being followed in either direction.
RECURSIVE Reach(_, _, _)
Reach(t, e, k) ==
    IF k = 0 THEN {e}
    ELSE LET near == Reach(t, e, k - 1)
         IN near \cup {r.target : r \in {x \in ActiveRows(t) : x.source \in near}}
                 \cup {r.source : r \in {x \in ActiveRows(t) : x.target \in near}}

\* The active relations the search reaches within d hops.
BfsRelations(t, e, d) ==
    {r \in ActiveRows(t) : r.source \in Reach(t, e, d - 1) \/ r.target \in Reach(t, e, d - 1)}

Traversals == {i \in 1..Len(mlog) : /\ mlog[i].op \in {"get_entity_relations", "get_relations"}
                                    /\ mlog[i].ret = "success"}

\* C24: a traversal to depth d returns exactly the active relations a
\* breadth-first search from the entity reaches within d hops, following the
\* relations in either direction, each relation exactly once.
C24_TraverseIsBfs ==
    \A i \in Traversals :
        /\ {g.row : g \in mlog[i].got} = BfsRelations(mlog[i].table, mlog[i].name, mlog[i].depth)
        /\ \A g, h \in mlog[i].got : g.row = h.row => g = h

\* The part of C24 about closed relations: none is returned.
C24_NeverClosed ==
    \A i \in Traversals : \A g \in mlog[i].got : g.row.valid_to = NoTime

\* The part of C24 about depth 1.
C24_DepthOneIsBfs ==
    \A i \in Traversals :
        mlog[i].depth = 1 =>
            /\ {g.row : g \in mlog[i].got} = BfsRelations(mlog[i].table, mlog[i].name, 1)
            /\ \A g, h \in mlog[i].got : g.row = h.row => g = h

\* The part of C24 about what is returned: only relations the search reaches.
C24_OnlyReached ==
    \A i \in Traversals :
        {g.row : g \in mlog[i].got} \subseteq
            BfsRelations(mlog[i].table, mlog[i].name, mlog[i].depth)

\* The part of C24 about what the search reaches: all of it is returned.
C24_AllReached ==
    \A i \in Traversals :
        BfsRelations(mlog[i].table, mlog[i].name, mlog[i].depth) \subseteq
            {g.row : g \in mlog[i].got}

\* ------------------------------------------------------------------ C25
\* A step in which a read (get_node or retrieve) returns.
ReadReturns ==
    /\ Len(mlog') = Len(mlog) + 1
    /\ mlog'[Len(mlog')].op \in {"get_node", "retrieve"}

\* C25: every read that returns a node adds exactly one to the access_count
\* of the node and sets its last_accessed, in the step of the read; the nodes
\* it does not return, and all nodes where it returns none, stay as they are.
C25_ReadCountsAccess ==
    [][ReadReturns =>
          \A i \in NodeIds :
              IF i \in mlog'[Len(mlog')].got
              THEN /\ nodes'[i].access_count = nodes[i].access_count + 1
                   /\ nodes'[i].last_accessed = now
              ELSE nodes'[i] = nodes[i]]_vars

\* The part of C25 about get_node.
C25_GetNodeCountsAccess ==
    [][(ReadReturns /\ mlog'[Len(mlog')].op = "get_node") =>
          \A i \in NodeIds :
              IF i \in mlog'[Len(mlog')].got
              THEN /\ nodes'[i].access_count = nodes[i].access_count + 1
                   /\ nodes'[i].last_accessed = now
              ELSE nodes'[i] = nodes[i]]_vars

\* ------------------------------------------------------------------ C26
\* The tables a sleep cycle writes.
CycleTables == <<semantic, relations, reflections, records, archive, episodes>>

\* A step of a, in a cycle over a run that had been drained when it began.
StepAfterDrain(a) ==
    /\ cyc[a].after
    /\ cyc'[a] # cyc[a] \/ mcall'[a] # mcall[a]

\* C26: a cycle over a run that has been consolidated, with no episode
\* recorded since, changes nothing: no node, relation, reflection or semantic
\* record is written, no relation closed, no episode archived.
C26_SecondRunChangesNothing ==
    [][\A a \in Actors : StepAfterDrain(a) => UNCHANGED CycleTables]_vars

\* The same cycle returns with no change made.
C26_SecondRunHasNoEffect ==
    \A i \in 1..Len(mlog) :
        (mlog[i].op = "consolidate" /\ mlog[i].after) => mlog[i].effects = 0

\* ------------------------------------------------------------------ C27
\* A step in which a cycle ends.
CycleEnds ==
    /\ Len(mlog') = Len(mlog) + 1
    /\ mlog'[Len(mlog')].op = "consolidate"

\* C27: a cycle in which a step has failed ends with an error, and its last
\* step removes no episode from the active log.
C27_FailureAborts ==
    [][(CycleEnds /\ mlog'[Len(mlog')].failed # {}) =>
          /\ mlog'[Len(mlog')].ret = "error"
          /\ episodes' = episodes]_vars

\* The part of C27 about the active log.
C27_FailedCycleKeepsLog ==
    [][(CycleEnds /\ mlog'[Len(mlog')].failed # {}) => episodes' = episodes]_vars

\* The part of C27 about the clustering.
C27_ClusteringFailureAborts ==
    [][(CycleEnds /\ "cluster" \in mlog'[Len(mlog')].failed) =>
          /\ mlog'[Len(mlog')].ret = "error"
          /\ episodes' = episodes]_vars

\* The part of C27 about the active log where the archive fails.
C27_ArchiveFailureKeepsLog ==
    [][(CycleEnds /\ "archive" \in mlog'[Len(mlog')].failed) => episodes' = episodes]_vars

\* ------------------------------------------------------------------ C28
\* C28: no two cycles over the same run are between fetch and archive at
\* the same time.
C28_CyclesSerialized ==
    \A a, b \in Actors :
        (a # b /\ cyc[a].step # "none" /\ cyc[b].step # "none") => cyc[a].run # cyc[b].run

\* No episode is fetched by two cycles.
C28_NoEpisodeProcessedTwice ==
    \A i, j \in 1..Len(mlog) :
        (i # j /\ mlog[i].op = "consolidate" /\ mlog[j].op = "consolidate")
            => Range(mlog[i].ids) \cap Range(mlog[j].ids) = {}

\* ------------------------------------------------------------------ C29
Occurrences(q, x) == Cardinality({i \in 1..Len(q) : q[i] = x})

\* C29: where a cycle returns a report, every episode it fetched is in the
\* archive once and not in the active log, and its last step leaves every
\* other episode in the active log.
C29_FetchedAreArchived ==
    [][(CycleEnds /\ mlog'[Len(mlog')].ret = "report") =>
          /\ \A e \in Range(mlog'[Len(mlog')].ids) :
                /\ Occurrences(archive', e) = 1
                /\ e \notin episodes'
          /\ episodes \ Range(mlog'[Len(mlog')].ids) \subseteq episodes']_vars

\* The same where no step of the cycle has failed.
C29_FetchedAreArchivedUnlessFailed ==
    [][(CycleEnds /\ mlog'[Len(mlog')].ret = "report" /\ mlog'[Len(mlog')].failed = {}) =>
          /\ \A e \in Range(mlog'[Len(mlog')].ids) :
                /\ Occurrences(archive', e) = 1
                /\ e \notin episodes'
          /\ episodes \ Range(mlog'[Len(mlog')].ids) \subseteq episodes']_vars

\* No step but the archive of a cycle removes an episode, and it removes
\* only what the cycle fetched.
C29_OthersStay ==
    [][\A e \in episodes \ episodes' :
          \E a \in Actors : cyc[a].step = "archive" /\ cyc'[a] = NoCycle
                            /\ e \in Range(cyc[a].ids)]_vars

\* ------------------------------------------------------------------ C30
\* The writes of key k that have returned, in the order of their return.
WritesOf(k) == SelectSeq(mlog, LAMBDA w : w.op = "blackboard_set" /\ w.key = k)

\* C30: the first write of a key yields version 1, and every later write of
\* it a version above those of the writes before it, whatever deletes there
\* are between them.
C30_VersionsGrow ==
    \A k \in LiteKeys :
        /\ WritesOf(k) # <<>> => WritesOf(k)[1].version = 1
        /\ \A i, j \in 1..Len(WritesOf(k)) :
              i < j => WritesOf(k)[i].version < WritesOf(k)[j].version

\* The part of C30 about the first write.
C30_FirstWriteIsOne ==
    \A k \in LiteKeys : WritesOf(k) # <<>> => WritesOf(k)[1].version = 1

\* ------------------------------------------------------------------ C31
\* The reference: the first of the remaining episodes is the seed; it takes
\* the first of the later remaining ones that are similar to it, up to
\* max_size members in all; the cluster is kept where it has min_size members
\* or its seed is important; the episodes of the cluster, kept or not, leave
\* the remaining ones.
RECURSIVE GreedyReference(_, _)
GreedyReference(cfg, rest) ==
    IF rest = <<>> THEN <<>>
    ELSE LET seed == Head(rest)
             similar == SelectSeq(Tail(rest), LAMBDA f :
                            CosineSimilarity(seed, f) >= cfg.clustering_threshold)
             cluster == <<seed>> \o SubSeq(similar, 1,
                                          Min(Len(similar), cfg.max_cluster_size - 1))
             left == SelectSeq(rest, LAMBDA f : f \notin Range(cluster))
             kept == \/ Len(cluster) >= cfg.min_cluster_size
                     \/ CalculateImportance(Content(seed)) >= 7
         IN (IF kept THEN <<cluster>> ELSE <<>>) \o GreedyReference(cfg, left)

Clustered == calc.fn = "cluster_episodes" /\ ~calc.raised

AttemptOnTime(a) ==
    /\ pc[a] = "poll"
    /\ pc'[a] # "poll"
    /\ now = Max(startTime[a], wakeAt[a])

\* C32: no attempt of a blocking acquire_lock is made, and the call does not
\* end, later than blocking_timeout after it began.
C32_WithinBlockingTimeout ==
    [][\A a \in Actors : AttemptOnTime(a) => now - startTime[a] <= call[a].timeout]_vars

\* ------------------------------------------------------------------ C33
\* A step that is an attempt of an acquire_lock on r: an iteration of the
\* polling loop of a call on r, or a call started that is no release_lock.
AttemptOn(r) ==
    \/ \E a \in Actors : pc[a] = "poll" /\ pc'[a] # "poll" /\ call[a].resource = r
    \/ /\ opsDone' = opsDone + 1
       /\ \A a \in Actors : call'[a].op # "release_lock"
       /\ \A a \in Actors : pc'[a] # "poll"

\* C33: an attempt that finds the resource held leaves the marker, who set
\* it and when it expires, as it was; and a marker that is there changes in
\* no step but by going away.
C33_FailedAttemptChangesNothing ==
    [][\A r \in Resources :
          lockMarker[r] # NoMarker =>
              /\ AttemptOn(r) => lockMarker'[r] = lockMarker[r]
              /\ lockMarker'[r] \in {lockMarker[r], NoMarker}]_vars

\* An actor sleeps in its polling loop, and a non-blocking call has returned
\* False, on a resource another actor holds, with time left to its expiry.
C33_Witness ==
    \E a, b \in Actors, r \in Resources :
        /\ a # b
        /\ lockMarker[r].owner = b
        /\ lockMarker[r].exp > now
        /\ now > 0
        /\ \/ pc[a] = "sleep" /\ call[a].resource = r
           \/ pc[a] = "idle" /\ result[a] = "false" /\ call[a].op = "acquire_lock"

\* ------------------------------------------------------------------ C34
\* The indicators of a set that are present in a content: those among its
\* words.
PresentIn(ws, indicators) == Cardinality(indicators \cap Range(ws))

\* The score of the claim, in tenths, for h high and l low indicators
\* counted up to 3 and a content of the given length.
ClaimedScore(h, l, length) ==
    LET base == IF h > 0 THEN 7 + h ELSE IF l > 0 THEN 3 - l ELSE 5
        bonus == IF length < 50 \/ length > 500 THEN 1 ELSE 0
    IN Max(0, Min(10, base + bonus))

Scored == calc.fn = "calculate_importance"

\* C34: the score is the claimed one for the indicators present in the
\* content; it is within [0, 1], at least 0.8 where a high indicator is
\* present, and at most 0.3 where only low indicators are.
C34_ScoreByIndicators ==
    Scored =>
        LET h == Min(3, PresentIn(calc.words, HighIndicators))
            l == Min(3, PresentIn(calc.words, LowIndicators))
        IN /\ calc.score = ClaimedScore(h, l, Len(Joined(calc.words)) + calc.pad)
           /\ calc.score \in 0..10
           /\ h > 0 => calc.score >= 8
           /\ (h = 0 /\ l > 0) => calc.score <= 3

\* The same for the indicators counted as the code counts them, wherever
\* they stand in the content.
C34_ScoreBySubstrings ==
    Scored =>
        LET h == Min(3, HighCount(Joined(calc.words)))
            l == Min(3, LowCount(Joined(calc.words)))
        IN /\ calc.score = ClaimedScore(h, l, Len(Joined(calc.words)) + calc.pad)
           /\ calc.score \in 0..10
           /\ h > 0 => calc.score >= 8
           /\ (h = 0 /\ l > 0) => calc.score <= 3

\* C35: a write_artifact that has failed with an error of the store (raised by
\* its set, expire, publish or audit append) has had no observable effect: the
\* artifact under its key is not the one it was writing, no event of it was
\* published and no audit entry of it was appended.
FailedWrites ==
    {id \in Calls : /\ opLog[id].op = "write"
                    /\ opLog[id].status \notin {"running", "ok"}
                    /\ opLog[id].cause \in StoreErrors}

C35_FailedWriteHasNoEffect ==
    \A id \in FailedWrites :
       /\ artifact[opLog[id].key].op # id
       /\ CountOf(events, id) = 0
       /\ CountOf(audit, id) = 0

\* The part of C35 that the code keeps: a failed write has appended no audit entry.
C35_FailedWriteNotAudited ==
    \A id \in FailedWrites : CountOf(audit, id) = 0

\* C36: where get_pipeline_state returns a state, it returns exactly the fields
\* of the most recent set_pipeline_state of the run: its step, its status, and
\* its data, no data where that set had none.
C36_GetStep ==
    \A a \in Actors, r \in Runs :
       ( /\ NoSetRunning
         /\ lastSet[r] # NoSet
         /\ opsDone' = opsDone + 1
         /\ pcall'[a].id = opsDone + 1
         /\ pcall'[a].run = r
         /\ pcall'[a].op = "get"
         /\ pcall'[a].got # NoResult ) =>
          /\ pcall'[a].got.step = lastSet[r].step
          /\ pcall'[a].got.status = lastSet[r].status
          /\ pcall'[a].got.data = IF lastSet[r].data = PyNone THEN NoField
                                  ELSE lastSet[r].data

C36_GetReturnsLastSet == [][C36_GetStep]_vars

\* The part of C36 that the code keeps: the step and the status returned are
\* those of the most recent set, and so is the data where that set had data.
C36_GetStepOfFields ==
    \A a \in Actors, r \in Runs :
       ( /\ NoSetRunning
         /\ lastSet[r] # NoSet
         /\ opsDone' = opsDone + 1
         /\ pcall'[a].id = opsDone + 1
         /\ pcall'[a].run = r
         /\ pcall'[a].op = "get"
         /\ pcall'[a].got # NoResult ) =>
          /\ pcall'[a].got.step = lastSet[r].step
          /\ pcall'[a].got.status = lastSet[r].status
          /\ lastSet[r].data # PyNone => pcall'[a].got.data = lastSet[r].data

C36_GetReturnsLastFields == [][C36_GetStepOfFields]_vars

\* C37: _upsert_relation is all-or-nothing: a call that reports failure has
\* changed no record, so that the record that was active before it is still
\* active.
C37_FailStep ==
    ( /\ Len(mlog') = Len(mlog) + 1
      /\ mlog'[Len(mlog')].op = "upsert_relation"
      /\ mlog'[Len(mlog')].ret = "false" ) => relations' = relations

C37_FailedUpsertChangesNothing == [][C37_FailStep]_vars

\* C37, later commits: when the transaction of the connection ends, by a
\* commit or by a rollback, the records that failed calls have closed are
\* active again.
C37_EndStep ==
    (pending # {} /\ pending' = {}) =>
        \A p \in pending : relations'[p.table][p.rid].valid_to = NoTime

C37_FailedUpsertUndone == [][C37_EndStep]_vars

\* The part of C37 that the code keeps: a call in which the SELECT raises, or
\* the INSERT where no record was active, reports failure and changes nothing.
C37_FirstFailStep ==
    ( /\ Len(mlog') = Len(mlog) + 1
      /\ mlog'[Len(mlog')].op = "upsert_relation"
      /\ mlog'[Len(mlog')].ret = "false"
      /\ ~mlog'[Len(mlog')].found ) => relations' = relations

C37_FirstFailureChangesNothing == [][C37_FirstFailStep]_vars

\* C38: in every report of consolidate, nodes_created is the number of nodes
\* the cycle has inserted, nodes_updated the number of existing nodes it has
\* updated, relations_created the number of relation records it has inserted
\* and episodes_processed the number of episodes it has archived.
Reports == {i \in 1..Len(mlog) : /\ mlog[i].op = "consolidate"
                                 /\ mlog[i].table = "consolidator"
                                 /\ mlog[i].ret = "report"}

C38_CountersAreTrue == \A i \in Reports : mlog[i].report = mlog[i].did

\* The part of C38 that the code keeps: nodes_created is the number of nodes
\* the cycle has inserted, and no counter is below what has happened.
C38_CreatedIsTrue ==
    \A i \in Reports :
        /\ mlog[i].report.nodes_created = mlog[i].did.nodes_created
        /\ \A k \in DOMAIN NoCounts : mlog[i].report[k] >= mlog[i].did[k]

\* C38 where no step of the cycle has failed and no other cycle has archived
\* its episodes: the counters are those of what has happened.
C38_CountersTrueUnlessFailed ==
    \A i \in Reports :
        (mlog[i].failed = {} /\ mlog[i].did.episodes_processed = Len(mlog[i].ids))
            => mlog[i].report = mlog[i].did

\* C39: after n record_pattern calls for a pattern id have returned,
\* sequential or concurrent, and while none is under way, times_used of the
\* pattern is n and its success_rate the number of those calls with success
\* divided by n.
Uses(id) == {i \in 1..Len(mlog) : /\ mlog[i].op = "record_pattern"
                                  /\ mlog[i].name = id
                                  /\ mlog[i].ret = "id"}
NoUseRunning == \A a \in Actors : mcall[a].pc \notin {"pat_select", "pat_write"}

C39_CountsEveryUse ==
    \A id \in PatternIds :
        LET n == Cardinality(Uses(id))
            successes == Cardinality({i \in Uses(id) : mlog[i].success})
        IN (NoUseRunning /\ n > 0) =>
              /\ patterns[id].times_used = n
              /\ patterns[id].rate_num * n = successes * patterns[id].rate_den

\* The part of C39 about calls that come one after the other: a call that
\* writes what it has computed from the row as it is now adds one use, and
\* the new success_rate is the old one with this call counted in.
C39_UseStep ==
    \A a \in Actors :
        LET c == mcall[a]
            old == patterns[c.name]
            new == patterns'[c.name]
        IN ( /\ c.pc = "pat_write"
             /\ mcall'[a].pc # "pat_write"
             /\ c.row = old ) =>
               /\ new.times_used = old.times_used + 1
               /\ new.rate_num * new.times_used * old.rate_den
                     = (old.rate_num * old.times_used
                        + (IF c.success THEN old.rate_den ELSE 0)) * new.rate_den

C39_SequentialUseCounts == [][C39_UseStep]_vars

\* The part of C39 about the utility: utility_score is within [0, 1].
C39_UtilityInRange ==
    \A id \in PatternIds : patterns[id].utility >= 0 /\ patterns[id].utility <= 1000

\* C40: in the server, an episode is marked consolidated only if its content
\* is in a narrative that a consolidate_episodes call has stored: an episode
\* recorded between the fetch and the mark of a call is not marked by it.
Stored == UNION {Range(records[i].ids) : i \in 1..Len(records)}

C40_MarkedWereStored == consolidated \subseteq Stored

\* The part of C40 that the code keeps: the episodes a call marks are
\* episodes of its run, and the episodes it has fetched are among them as far
\* as they are still there.
C40_MarkStep ==
    \A a \in Actors :
        (cyc[a].step = "mark" /\ cyc'[a].step = "none" /\ consolidated' # consolidated) =>
            /\ \A e \in consolidated' \ consolidated : RunOf(e) = cyc[a].run
            /\ Range(cyc[a].ids) \cap episodes \subseteq consolidated'

C40_MarkedAreOfRun == [][C40_MarkStep]_vars

====
